---- MODULE Spec2Model ----
(***************************************************************************)
(* SecScoreDB: the schema-checked field accessor (DynamicWrapper and its   *)
(* FieldProxy), the property bag of a Student, and the predicate evaluator *)
(* of the websocket wrapper (materializeEntityData, evaluateLogicNode).    *)
(*                                                                         *)
(* A std::string is a sequence of one-character strings.  A double is a    *)
(* decimal [m, e] standing for m * 10^e, normalised so that m has no       *)
(* trailing zero; every text of the model has at most nine significant     *)
(* digits, where decimal text and double correspond one to one.            *)
(***************************************************************************)
EXTENDS Integers, Sequences, FiniteSets, TLC

\* ------------------------------------------------------------------------
\* Characters and texts
\* ------------------------------------------------------------------------

Digits == <<"0", "1", "2", "3", "4", "5", "6", "7", "8", "9">>

IsDigit(c) == \E i \in 1..10 : Digits[i] = c

DigitVal(c) == (CHOOSE i \in 1..10 : Digits[i] = c) - 1

DigitChar(d) == Digits[d + 1]

UpperLetters == <<"A", "B", "C", "D", "E", "F", "G", "H", "I", "J", "K", "L", "M",
                  "N", "O", "P", "Q", "R", "S", "T", "U", "V", "W", "X", "Y", "Z">>

LowerLetters == <<"a", "b", "c", "d", "e", "f", "g", "h", "i", "j", "k", "l", "m",
                  "n", "o", "p", "q", "r", "s", "t", "u", "v", "w", "x", "y", "z">>

\* std::tolower on one character
ToLowerChar(c) ==
    IF \E i \in 1..26 : UpperLetters[i] = c
    THEN LowerLetters[CHOOSE i \in 1..26 : UpperLetters[i] = c]
    ELSE c

\* std::toupper on one character
ToUpperChar(c) ==
    IF \E i \in 1..26 : LowerLetters[i] = c
    THEN UpperLetters[CHOOSE i \in 1..26 : LowerLetters[i] = c]
    ELSE c

toLowerCopy(s) == [i \in 1..Len(s) |-> ToLowerChar(s[i])]

toUpperCopy(s) == [i \in 1..Len(s) |-> ToUpperChar(s[i])]

\* std::isspace in the "C" locale, for the characters the model uses
IsSpace(c) == c = " "

\* the number of leading characters of s, from position i on, that are digits
RECURSIVE DigitRun(_, _)
DigitRun(s, i) ==
    IF i <= Len(s) /\ IsDigit(s[i]) THEN 1 + DigitRun(s, i + 1) ELSE 0

\* the number of leading white-space characters of s
RECURSIVE SpaceRun(_, _)
SpaceRun(s, i) ==
    IF i <= Len(s) /\ IsSpace(s[i]) THEN 1 + SpaceRun(s, i + 1) ELSE 0

RECURSIVE Pow10(_)
Pow10(n) == IF n = 0 THEN 1 ELSE 10 * Pow10(n - 1)

\* ------------------------------------------------------------------------
\* Integer types of the accessor's template parameter V
\* ------------------------------------------------------------------------

SHRT_MIN == -32768
SHRT_MAX == 32767
INT_MIN == -2147483647 - 1
INT_MAX == 2147483647

IntTypes == {"short", "int"}

MinOf(vt) == IF vt = "short" THEN SHRT_MIN ELSE INT_MIN

MaxOf(vt) == IF vt = "short" THEN SHRT_MAX ELSE INT_MAX

\* the digits s[i..j] accumulated into acc the way from_chars does, towards
\* the negative side when neg; ovf when the value leaves lo..hi
RECURSIVE AccDigits(_, _, _, _, _, _, _)
AccDigits(s, i, j, neg, lo, hi, acc) ==
    IF i > j THEN [ovf |-> FALSE, val |-> acc]
    ELSE LET d == DigitVal(s[i]) IN
         IF neg
         THEN IF acc < (lo + d + 9) \div 10
              THEN [ovf |-> TRUE, val |-> 0]
              ELSE AccDigits(s, i + 1, j, neg, lo, hi, acc * 10 - d)
         ELSE IF acc > (hi - d) \div 10
              THEN [ovf |-> TRUE, val |-> 0]
              ELSE AccDigits(s, i + 1, j, neg, lo, hi, acc * 10 + d)

\* std::from_chars(first, last, V& value) for a signed integer type V:
\* an optional '-', then decimal digits; no white space, no '+'.
\* ptr is the number of characters consumed.
FromCharsInt(s, vt) ==
    LET neg == Len(s) >= 1 /\ s[1] = "-"
        first == IF neg THEN 2 ELSE 1
        n == DigitRun(s, first)
        last == first + n - 1
        acc == AccDigits(s, first, last, neg, MinOf(vt), MaxOf(vt), 0)
    IN IF n = 0 THEN [ec |-> "invalid_argument", ptr |-> 0, val |-> 0]
       ELSE IF acc.ovf THEN [ec |-> "result_out_of_range", ptr |-> last, val |-> 0]
       ELSE [ec |-> "ok", ptr |-> last, val |-> acc.val]

\* the decimal digits of n >= 0
RECURSIVE NatText(_)
NatText(n) == IF n < 10 THEN <<DigitChar(n)>> ELSE Append(NatText(n \div 10), DigitChar(n % 10))

\* the decimal digits of -n for n <= 0, computed on the negative side
RECURSIVE NegText(_)
NegText(n) ==
    LET d == (10 - (n % 10)) % 10
    IN IF n > -10 THEN <<DigitChar(d)>> ELSE Append(NegText((n + d) \div 10), DigitChar(d))

\* mutant: the sign is not written
FormatInt_DropSign(n) == IF n < 0 THEN NegText(n) ELSE NatText(n)

\* std::format("{}", value) for an integer value
FormatInt(n) == IF n < 0 THEN <<"-">> \o NegText(n) ELSE NatText(n)

\* ------------------------------------------------------------------------
\* Doubles
\* ------------------------------------------------------------------------

\* m * 10^e without trailing zeros in m
RECURSIVE NormDec(_, _)
NormDec(m, e) ==
    IF m = 0 THEN [m |-> 0, e |-> 0]
    ELSE IF m % 10 = 0 THEN NormDec(m \div 10, e + 1)
    ELSE [m |-> m, e |-> e]

\* static_cast<double> of an integer (json::get<double> on an integer number)
ToDouble(n) == NormDec(n, 0)

Abs(n) == IF n < 0 THEN 0 - n ELSE n

\* the decimal exponent of the leading digit of a nonzero double
SciExp(x) == x.e + Len(NatText(Abs(x.m))) - 1

DBL_MAX_10_EXP == 308
DBL_TRUE_MIN_10_EXP == -324

\* the value of the digits s[i..j], read left to right
RECURSIVE DigitsVal(_, _, _, _)
DigitsVal(s, i, j, acc) ==
    IF i > j THEN acc ELSE DigitsVal(s, i + 1, j, acc * 10 + DigitVal(s[i]))

\* The decimal floating literal that starts at position i of s (the sign is
\* the caller's): digits with an optional '.', at least one digit, then an
\* optional exponent 'e' or 'E', optional sign, digits.  end is the last
\* position consumed, range is FALSE when the value is too large or too
\* small for a double (strtod's ERANGE).
ScanDecimal(s, i, neg) ==
    LET intN == DigitRun(s, i)
        dotAt == i + intN
        hasDot == dotAt <= Len(s) /\ s[dotAt] = "."
        fracN == IF hasDot THEN DigitRun(s, dotAt + 1) ELSE 0
        mantEnd == IF hasDot THEN dotAt + fracN ELSE dotAt - 1
        eAt == mantEnd + 1
        hasE == eAt <= Len(s) /\ s[eAt] \in {"e", "E"}
        sgnAt == eAt + 1
        hasSgn == hasE /\ sgnAt <= Len(s) /\ s[sgnAt] \in {"+", "-"}
        expAt == IF hasSgn THEN sgnAt + 1 ELSE sgnAt
        expN == IF hasE THEN DigitRun(s, expAt) ELSE 0
        expVal == IF expN = 0 THEN 0
                  ELSE IF hasSgn /\ s[sgnAt] = "-"
                       THEN 0 - DigitsVal(s, expAt, expAt + expN - 1, 0)
                       ELSE DigitsVal(s, expAt, expAt + expN - 1, 0)
        intVal == DigitsVal(s, i, i + intN - 1, 0)
        mant == IF hasDot THEN DigitsVal(s, dotAt + 1, dotAt + fracN, intVal) ELSE intVal
        x == NormDec(IF neg THEN 0 - mant ELSE mant, expVal - fracN)
    IN IF intN + fracN = 0 THEN [ok |-> FALSE, end |-> 0, range |-> TRUE, val |-> ToDouble(0)]
       ELSE [ok |-> TRUE,
             end |-> IF expN > 0 THEN expAt + expN - 1 ELSE mantEnd,
             range |-> x.m = 0 \/ (SciExp(x) <= DBL_MAX_10_EXP /\ SciExp(x) >= DBL_TRUE_MIN_10_EXP),
             val |-> x]

\* std::from_chars(first, last, double& value): an optional '-', then the
\* literal; no white space, no '+'
FromCharsDouble(s) ==
    LET neg == Len(s) >= 1 /\ s[1] = "-"
        sc == ScanDecimal(s, IF neg THEN 2 ELSE 1, neg)
    IN IF ~sc.ok THEN [ec |-> "invalid_argument", ptr |-> 0, val |-> ToDouble(0)]
       ELSE IF ~sc.range THEN [ec |-> "result_out_of_range", ptr |-> sc.end, val |-> ToDouble(0)]
       ELSE [ec |-> "ok", ptr |-> sc.end, val |-> sc.val]

Zeros(n) == [i \in 1..n |-> "0"]

\* std::format("{}", value) for a double: the shorter of the fixed and the
\* scientific notation that reads back as the same double, fixed on a tie
FormatDouble(x) ==
    LET ds == NatText(Abs(x.m))
        k == Len(ds)
        f == 0 - x.e
        fixed == IF x.e >= 0 THEN ds \o Zeros(x.e)
                 ELSE IF k > f THEN SubSeq(ds, 1, k - f) \o <<".">> \o SubSeq(ds, k - f + 1, k)
                 ELSE <<"0", ".">> \o Zeros(f - k) \o ds
        se == SciExp(x)
        et == NatText(Abs(se))
        sci == <<ds[1]>> \o (IF k > 1 THEN <<".">> \o SubSeq(ds, 2, k) ELSE <<>>)
               \o <<"e", IF se < 0 THEN "-" ELSE "+">>
               \o (IF Len(et) < 2 THEN <<"0">> \o et ELSE et)
        body == IF Len(fixed) <= Len(sci) THEN fixed ELSE sci
    IN IF x.m < 0 THEN <<"-">> \o body ELSE body

\* lhs < rhs on doubles
DoubleLess(a, b) ==
    LET lo == IF a.e < b.e THEN a.e ELSE b.e
    IN a.m * Pow10(a.e - lo) < b.m * Pow10(b.e - lo)

\* ------------------------------------------------------------------------
\* std::stoll and std::stod, as decodeStoredValue calls them
\* ------------------------------------------------------------------------

\* std::stoll(raw): leading white space, an optional sign, decimal digits,
\* anything after them ignored.  The texts of the model hold at most nine
\* digits, far inside long long, so out_of_range is not reached here.
Stoll(s) ==
    LET sp == SpaceRun(s, 1)
        sgnAt == sp + 1
        hasSgn == sgnAt <= Len(s) /\ s[sgnAt] \in {"+", "-"}
        first == IF hasSgn THEN sgnAt + 1 ELSE sgnAt
        n == DigitRun(s, first)
        mag == DigitsVal(s, first, first + n - 1, 0)
    IN IF n = 0 THEN [ok |-> FALSE, val |-> 0]
       ELSE [ok |-> TRUE, val |-> IF hasSgn /\ s[sgnAt] = "-" THEN 0 - mag ELSE mag]

\* std::stod(raw): leading white space, an optional sign, a decimal literal,
\* anything after it ignored; throws when there is no literal or when the
\* value is out of a double's range
StodResult(sc) ==
    IF sc.ok /\ sc.range THEN [ok |-> TRUE, val |-> sc.val]
    ELSE [ok |-> FALSE, val |-> ToDouble(0)]

Stod(s) ==
    LET sp == SpaceRun(s, 1)
        sgnAt == sp + 1
        hasSgn == sgnAt <= Len(s) /\ s[sgnAt] \in {"+", "-"}
    IN StodResult(ScanDecimal(s, IF hasSgn THEN sgnAt + 1 ELSE sgnAt, hasSgn /\ s[sgnAt] = "-"))

\* ------------------------------------------------------------------------
\* Schema and property bag
\* ------------------------------------------------------------------------

\* enum class FieldType
FieldType == {"Int", "Double", "String", "Unknown"}

\* The C++ types the accessor is instantiated with: V of operator= and of
\* operator V.  "chararray" is a string literal passed to operator=, whose
\* decayed type char* is none of the three string types getTypeId knows.
ValueTypes == {"short", "int", "double", "string", "chararray"}

\* mutant: floating-point values pass as integers (implicit narrowing)
getTypeId_Narrowing(vt) ==
    IF vt = "string" THEN "String"
    ELSE IF vt = "double" \/ vt \in IntTypes THEN "Int"
    ELSE "Unknown"

getTypeId(vt) ==
    IF vt = "string" THEN "String"
    ELSE IF vt = "double" THEN "Double"
    ELSE IF vt \in IntTypes THEN "Int"
    ELSE "Unknown"

\* std::is_arithmetic_v<V>
IsArithmetic(vt) == vt \in IntTypes \/ vt = "double"

\* mutant: the new text is appended to the text already stored
SetMetadataValue_Merge(meta, key, value) ==
    [k \in DOMAIN meta \cup {key} |->
        IF k # key THEN meta[k]
        ELSE IF key \in DOMAIN meta THEN meta[key] \o value ELSE value]

\* Student::SetMetadataValue: metadata_[key] = value
SetMetadataValue(meta, key, value) ==
    [k \in DOMAIN meta \cup {key} |-> IF k = key THEN value ELSE meta[k]]

\* mutant: a field that is not stored reads as "0"
GetMetadataValue_DefaultZero(meta, key) == IF key \in DOMAIN meta THEN meta[key] ELSE <<"0">>

\* Student::GetMetadataValue: the stored text, or an empty string
GetMetadataValue(meta, key) == IF key \in DOMAIN meta THEN meta[key] ELSE <<>>

\* ------------------------------------------------------------------------
\* DynamicWrapper: operator[] and the FieldProxy it returns
\* ------------------------------------------------------------------------

\* The outcome of one call: ok with a value, or the exception thrown.
\* trace lists the steps the call went through, in order.
Ok(v, tr) == [ok |-> TRUE, err |-> "none", val |-> v, trace |-> tr]

\* A value with its type tag: i holds an integer, d a double, s a string,
\* b a boolean; the slots the tag does not name stay at their defaults.
Value(t, i, d, s, b) == [t |-> t, i |-> i, d |-> d, s |-> s, b |-> b]

Void == Value("void", 0, ToDouble(0), <<>>, FALSE)

IntVal(n) == Value("int", n, ToDouble(0), <<>>, FALSE)

DoubleVal(x) == Value("double", 0, x, <<>>, FALSE)

StringVal(s) == Value("string", 0, ToDouble(0), s, FALSE)

Throw(kind, tr) == [ok |-> FALSE, err |-> kind, val |-> Void, trace |-> tr]

\* std::format("{}", value) for an arithmetic value
Format(value) == IF value.t = "int" THEN FormatInt(value.i) ELSE FormatDouble(value.d)

\* DynamicWrapper::operator[]: the one schema lookup of an access
SchemaFind(schema, key) == key \in DOMAIN schema

\* FieldProxy::operator=(const V& value), after operator[] found the entry.
\* Yields the outcome and the entity's metadata after the call.
FieldProxyAssign(meta, schema, key, vt, value) ==
    IF getTypeId(vt) # schema[key]
    THEN [out |-> Throw("TypeMismatch", <<"find", "typecheck">>), meta |-> meta]
    ELSE IF IsArithmetic(vt)
    THEN [out |-> Ok(Void, <<"find", "typecheck", "format", "SetMetadataValue">>),
          meta |-> SetMetadataValue(meta, key, Format(value))]
    ELSE [out |-> Ok(Void, <<"find", "typecheck", "SetMetadataValue">>),
          meta |-> SetMetadataValue(meta, key, value.s)]

\* mutant: the number in front of the text is returned, the rest ignored
FieldProxyRead_Truncating(meta, schema, key, vt) ==
    IF getTypeId(vt) # schema[key]
    THEN Throw("TypeMismatch", <<"find", "typecheck">>)
    ELSE LET str == GetMetadataValue(meta, key)
             tr == <<"find", "typecheck", "GetMetadataValue">>
         IN IF vt = "string" THEN Ok(StringVal(str), tr)
            ELSE IF str = <<>> THEN Throw("EmptyValue", tr)
            ELSE LET r == IF vt = "double" THEN FromCharsDouble(str) ELSE FromCharsInt(str, vt)
                     tr2 == Append(tr, "from_chars")
                 IN IF r.ec = "invalid_argument" THEN Throw("InvalidFormat", tr2)
                    ELSE IF r.ec = "result_out_of_range" THEN Throw("OutOfRange", tr2)
                    ELSE Ok(IF vt = "double" THEN DoubleVal(r.val) ELSE IntVal(r.val), tr2)

\* std::from_chars(str.data(), str.data() + str.size(), result) for V = vt
FromChars(str, vt) ==
    IF vt = "double" THEN FromCharsDouble(str) ELSE FromCharsInt(str, vt)

\* FieldProxy::operator V() const, what it makes of the result r of
\* std::from_chars on the stored text str
Converted(r, str, vt, tr) ==
    IF r.ec = "invalid_argument" THEN Throw("InvalidFormat", tr)
    ELSE IF r.ec = "result_out_of_range" THEN Throw("OutOfRange", tr)
    ELSE IF r.ptr # Len(str) THEN Throw("PartialConversion", tr)
    ELSE Ok(IF vt = "double" THEN DoubleVal(r.val) ELSE IntVal(r.val), tr)

\* FieldProxy::operator V() const, after operator[] found the entry
FieldProxyRead(meta, schema, key, vt) ==
    IF getTypeId(vt) # schema[key]
    THEN Throw("TypeMismatch", <<"find", "typecheck">>)
    ELSE LET str == GetMetadataValue(meta, key)
             tr == <<"find", "typecheck", "GetMetadataValue">>
         IN IF vt = "string" THEN Ok(StringVal(str), tr)
            ELSE IF str = <<>> THEN Throw("EmptyValue", tr)
            ELSE Converted(FromChars(str, vt), str, vt, Append(tr, "from_chars"))

\* mutant: the value is stored before the schema is consulted
WrapperSet_WriteFirst(meta, schema, key, vt, value) ==
    IF ~SchemaFind(schema, key)
    THEN [out |-> Throw("FieldNotDeclared", <<"find">>),
          meta |-> SetMetadataValue(meta, key, IF IsArithmetic(vt) THEN Format(value) ELSE value.s)]
    ELSE FieldProxyAssign(meta, schema, key, vt, value)

\* wrapper[key] = value
WrapperSet(meta, schema, key, vt, value) ==
    IF ~SchemaFind(schema, key)
    THEN [out |-> Throw("FieldNotDeclared", <<"find">>), meta |-> meta]
    ELSE FieldProxyAssign(meta, schema, key, vt, value)

\* static_cast<V>(wrapper[key])
WrapperGet(meta, schema, key, vt) ==
    IF ~SchemaFind(schema, key)
    THEN Throw("FieldNotDeclared", <<"find">>)
    ELSE FieldProxyRead(meta, schema, key, vt)

\* ------------------------------------------------------------------------
\* JSON values, the typed snapshot, and the predicate evaluator
\* ------------------------------------------------------------------------

BoolVal(b) == Value("bool", 0, ToDouble(0), <<>>, b)

NullVal == Value("null", 0, ToDouble(0), <<>>, FALSE)

\* json::is_number
IsNumber(j) == j.t \in {"int", "double"}

\* json::is_string
IsString(j) == j.t = "string"

\* json::get<double> on a number
GetDouble(j) == IF j.t = "int" THEN ToDouble(j.i) ELSE j.d

None == [some |-> FALSE, val |-> NullVal]

Some(j) == [some |-> TRUE, val |-> j]

\* decodeStoredValue: the stored text as a JSON value, nothing when
\* std::stoll or std::stod throws
DecodedInt(r) == IF r.ok THEN Some(IntVal(r.val)) ELSE None

DecodedDouble(r) == IF r.ok THEN Some(DoubleVal(r.val)) ELSE None

decodeStoredValue(raw, type) ==
    IF type = "String" THEN Some(StringVal(raw))
    ELSE IF type = "Int" THEN DecodedInt(Stoll(raw))
    ELSE IF type = "Double" THEN DecodedDouble(Stod(raw))
    ELSE None

\* materializeEntityData: the decoded value of every schema field that the
\* metadata holds and that decodes
SetDecoded(decoded) == [f \in {g \in DOMAIN decoded : decoded[g].some} |-> decoded[f].val]

materializeEntityData(meta, schema) ==
    SetDecoded([f \in DOMAIN schema \cap DOMAIN meta |-> decodeStoredValue(meta[f], schema[f])])

OpEq == <<"=", "=">>
OpNe == <<"!", "=">>
OpGt == <<">">>
OpGe == <<">", "=">>
OpLt == <<"<">>
OpLe == <<"<", "=">>
OpContains == <<"c", "o", "n", "t", "a", "i", "n", "s">>
OpStartsWith == <<"s", "t", "a", "r", "t", "s", "_", "w", "i", "t", "h">>
OpEndsWith == <<"e", "n", "d", "s", "_", "w", "i", "t", "h">>
OpAnd == <<"A", "N", "D">>
OpOr == <<"O", "R">>

\* the outcome of an evaluation: a boolean, or the ApiError thrown; visited
\* lists the leaf rules that were evaluated, in order
Bool(b, vis) == [ok |-> TRUE, val |-> b, err |-> "none", code |-> 0, visited |-> vis]

ApiError(code, kind, vis) == [ok |-> FALSE, val |-> FALSE, err |-> kind, code |-> code, visited |-> vis]

\* std::string::find(rhs) != npos
Find(lhs, rhs) ==
    \E i \in 1..(Len(lhs) - Len(rhs) + 1) : SubSeq(lhs, i, i + Len(rhs) - 1) = rhs

starts_with(lhs, rhs) == Len(rhs) <= Len(lhs) /\ SubSeq(lhs, 1, Len(rhs)) = rhs

ends_with(lhs, rhs) ==
    Len(rhs) <= Len(lhs) /\ SubSeq(lhs, Len(lhs) - Len(rhs) + 1, Len(lhs)) = rhs

\* mutant: >= decided as >
compareNumbers_GeAsGt(lhs, rhs, op, vis) ==
    IF op = OpEq THEN Bool(lhs = rhs, vis)
    ELSE IF op = OpNe THEN Bool(lhs # rhs, vis)
    ELSE IF op = OpGt THEN Bool(DoubleLess(rhs, lhs), vis)
    ELSE IF op = OpGe THEN Bool(DoubleLess(rhs, lhs), vis)
    ELSE IF op = OpLt THEN Bool(DoubleLess(lhs, rhs), vis)
    ELSE IF op = OpLe THEN Bool(~DoubleLess(rhs, lhs), vis)
    ELSE ApiError(422, "UnsupportedOperator", vis)

compareNumbers(lhs, rhs, op, vis) ==
    IF op = OpEq THEN Bool(lhs = rhs, vis)
    ELSE IF op = OpNe THEN Bool(lhs # rhs, vis)
    ELSE IF op = OpGt THEN Bool(DoubleLess(rhs, lhs), vis)
    ELSE IF op = OpGe THEN Bool(~DoubleLess(lhs, rhs), vis)
    ELSE IF op = OpLt THEN Bool(DoubleLess(lhs, rhs), vis)
    ELSE IF op = OpLe THEN Bool(~DoubleLess(rhs, lhs), vis)
    ELSE ApiError(422, "UnsupportedOperator", vis)

compareStrings(lhs, rhs, opLower, vis) ==
    IF opLower = OpEq THEN Bool(lhs = rhs, vis)
    ELSE IF opLower = OpNe THEN Bool(lhs # rhs, vis)
    ELSE IF opLower = OpContains THEN Bool(Find(lhs, rhs), vis)
    ELSE IF opLower = OpStartsWith THEN Bool(starts_with(lhs, rhs), vis)
    ELSE IF opLower = OpEndsWith THEN Bool(ends_with(lhs, rhs), vis)
    ELSE ApiError(422, "UnsupportedOperator", vis)

\* mutant: a field without a value differs from every literal
EvaluateLeaf_AbsentNe(entityData, node, schema) ==
    LET vis == <<node>> IN
    IF ~node.hasVal THEN ApiError(400, "MissingVal", vis)
    ELSE IF node.field \notin DOMAIN schema THEN ApiError(422, "FieldNotDeclared", vis)
    ELSE IF node.field \notin DOMAIN entityData THEN Bool(node.op = OpNe, vis)
    ELSE LET lhs == entityData[node.field]
             rhs == node.val
             type == schema[node.field]
         IN IF type = "String"
            THEN IF ~IsString(lhs) \/ ~IsString(rhs)
                 THEN ApiError(422, "TypeMismatch", vis)
                 ELSE compareStrings(lhs.s, rhs.s, toLowerCopy(node.op), vis)
            ELSE IF type = "Int" \/ type = "Double"
            THEN IF ~IsNumber(lhs) THEN ApiError(422, "TypeMismatch", vis)
                 ELSE IF ~IsNumber(rhs) THEN ApiError(422, "TypeMismatch", vis)
                 ELSE compareNumbers(GetDouble(lhs), GetDouble(rhs), node.op, vis)
            ELSE ApiError(422, "UnsupportedFieldType", vis)

\* mutant: the absent-value rule is applied before the schema lookup
EvaluateLeaf_AbsentFirst(entityData, node, schema) ==
    LET vis == <<node>> IN
    IF ~node.hasVal THEN ApiError(400, "MissingVal", vis)
    ELSE IF node.field \notin DOMAIN entityData THEN Bool(FALSE, vis)
    ELSE IF node.field \notin DOMAIN schema THEN ApiError(422, "FieldNotDeclared", vis)
    ELSE LET lhs == entityData[node.field]
             rhs == node.val
             type == schema[node.field]
         IN IF type = "String"
            THEN IF ~IsString(lhs) \/ ~IsString(rhs)
                 THEN ApiError(422, "TypeMismatch", vis)
                 ELSE compareStrings(lhs.s, rhs.s, toLowerCopy(node.op), vis)
            ELSE IF type = "Int" \/ type = "Double"
            THEN IF ~IsNumber(lhs) THEN ApiError(422, "TypeMismatch", vis)
                 ELSE IF ~IsNumber(rhs) THEN ApiError(422, "TypeMismatch", vis)
                 ELSE compareNumbers(GetDouble(lhs), GetDouble(rhs), node.op, vis)
            ELSE ApiError(422, "UnsupportedFieldType", vis)

\* mutant: a literal that is not a number compares false with a number
EvaluateLeaf_Lenient(entityData, node, schema) ==
    LET vis == <<node>> IN
    IF ~node.hasVal THEN ApiError(400, "MissingVal", vis)
    ELSE IF node.field \notin DOMAIN schema THEN ApiError(422, "FieldNotDeclared", vis)
    ELSE IF node.field \notin DOMAIN entityData THEN Bool(FALSE, vis)
    ELSE LET lhs == entityData[node.field]
             rhs == node.val
             type == schema[node.field]
         IN IF type = "String"
            THEN IF ~IsString(lhs) \/ ~IsString(rhs)
                 THEN ApiError(422, "TypeMismatch", vis)
                 ELSE compareStrings(lhs.s, rhs.s, toLowerCopy(node.op), vis)
            ELSE IF type = "Int" \/ type = "Double"
            THEN IF ~IsNumber(lhs) THEN ApiError(422, "TypeMismatch", vis)
                 ELSE IF ~IsNumber(rhs) THEN Bool(FALSE, vis)
                 ELSE compareNumbers(GetDouble(lhs), GetDouble(rhs), node.op, vis)
            ELSE ApiError(422, "UnsupportedFieldType", vis)

\* the leaf branch of evaluateLogicNode
EvaluateLeaf(entityData, node, schema) ==
    LET vis == <<node>> IN
    IF ~node.hasVal THEN ApiError(400, "MissingVal", vis)
    ELSE IF node.field \notin DOMAIN schema THEN ApiError(422, "FieldNotDeclared", vis)
    ELSE IF node.field \notin DOMAIN entityData THEN Bool(FALSE, vis)
    ELSE LET lhs == entityData[node.field]
             rhs == node.val
             type == schema[node.field]
         IN IF type = "String"
            THEN IF ~IsString(lhs) \/ ~IsString(rhs)
                 THEN ApiError(422, "TypeMismatch", vis)
                 ELSE compareStrings(lhs.s, rhs.s, toLowerCopy(node.op), vis)
            ELSE IF type = "Int" \/ type = "Double"
            THEN IF ~IsNumber(lhs) THEN ApiError(422, "TypeMismatch", vis)
                 ELSE IF ~IsNumber(rhs) THEN ApiError(422, "TypeMismatch", vis)
                 ELSE compareNumbers(GetDouble(lhs), GetDouble(rhs), node.op, vis)
            ELSE ApiError(422, "UnsupportedFieldType", vis)

RECURSIVE evaluateLogicNode(_, _, _)

\* mutant: every child is evaluated before the results are combined
RECURSIVE EvaluateRules_Eager(_, _, _, _, _, _)
EvaluateRules_Eager(entityData, rules, i, schema, isAnd, vis) ==
    IF i > Len(rules) THEN Bool(isAnd, vis)
    ELSE LET r == evaluateLogicNode(entityData, rules[i], schema)
             rest == EvaluateRules_Eager(entityData, rules, i + 1, schema, isAnd, vis \o r.visited)
         IN IF ~r.ok THEN [r EXCEPT !.visited = vis \o r.visited]
            ELSE IF ~rest.ok THEN rest
            ELSE Bool(IF isAnd THEN r.val /\ rest.val ELSE r.val \/ rest.val, rest.visited)

\* mutant: the result of the last child decides
EvaluateRules_LastWins(entityData, rules, i, schema, isAnd, vis) ==
    LET r == evaluateLogicNode(entityData, rules[Len(rules)], schema)
    IN IF Len(rules) = 0 THEN Bool(isAnd, vis) ELSE r

\* std::ranges::all_of (isAnd) and any_of over rules[i..]: the children are
\* evaluated in order until one decides the result or throws
RECURSIVE EvaluateRules(_, _, _, _, _, _)
EvaluateRules(entityData, rules, i, schema, isAnd, vis) ==
    IF i > Len(rules) THEN Bool(isAnd, vis)
    ELSE LET r == evaluateLogicNode(entityData, rules[i], schema)
             vis2 == vis \o r.visited
         IN IF ~r.ok THEN [r EXCEPT !.visited = vis2]
            ELSE IF r.val # isAnd THEN Bool(~isAnd, vis2)
            ELSE EvaluateRules(entityData, rules, i + 1, schema, isAnd, vis2)

\* mutant: a combinator without children is evaluated like any other
evaluateLogicNode_Vacuous(entityData, node, schema) ==
    IF node.kind = "other" THEN ApiError(400, "NotAnObject", <<>>)
    ELSE IF node.kind = "leaf" THEN EvaluateLeaf(entityData, node, schema)
    ELSE LET op == toUpperCopy(node.op) IN
         IF op = OpAnd THEN EvaluateRules(entityData, node.rules, 1, schema, TRUE, <<>>)
         ELSE IF op = OpOr THEN EvaluateRules(entityData, node.rules, 1, schema, FALSE, <<>>)
         ELSE ApiError(400, "UnsupportedOperator", <<>>)

evaluateLogicNode(entityData, node, schema) ==
    IF node.kind = "other" THEN ApiError(400, "NotAnObject", <<>>)
    ELSE IF node.kind = "leaf" THEN EvaluateLeaf(entityData, node, schema)
    ELSE LET op == toUpperCopy(node.op) IN
         IF Len(node.rules) = 0 THEN ApiError(400, "EmptyRuleSet", <<>>)
         ELSE IF op = OpAnd THEN EvaluateRules(entityData, node.rules, 1, schema, TRUE, <<>>)
         ELSE IF op = OpOr THEN EvaluateRules(entityData, node.rules, 1, schema, FALSE, <<>>)
         ELSE ApiError(400, "UnsupportedOperator", <<>>)

\* ------------------------------------------------------------------------
\* Entities and users
\* ------------------------------------------------------------------------

\* class Student: the membership list and the property bag
Student(groups, meta) == [groups |-> groups, metadata |-> meta]

\* class Group: the member list and the property bag
Group(students, meta) == [students |-> students, metadata |-> meta]

\* Membership lists: Student::groupBelong_ and Group::containStudents_ are
\* vectors of ids, and the two classes treat them alike.

\* Student::AddGroup and Group::AddStudent: push_back
AddMember(list, id) == Append(list, id)

\* std::ranges::find: the first position holding id, 0 for end()
FindMember(list, id) ==
    IF \E i \in DOMAIN list : list[i] = id
    THEN CHOOSE i \in DOMAIN list : list[i] = id /\ \A j \in 1..(i - 1) : list[j] # id
    ELSE 0

\* vector::erase(it)
EraseAt(list, i) == SubSeq(list, 1, i - 1) \o SubSeq(list, i + 1, Len(list))

\* Student::RemoveGroup and Group::RemoveStudent
RemoveMember(list, id) ==
    IF FindMember(list, id) # 0
    THEN [ok |-> TRUE, list |-> EraseAt(list, FindMember(list, id))]
    ELSE [ok |-> FALSE, list |-> list]

\* Student::BelongsToGroup and Group::ContainsStudent: std::ranges::contains
HasMember(list, id) == \E i \in DOMAIN list : list[i] = id

\* enum class Permission: three bits
NONE == 0
READ == 1
WRITE == 2
DELETE == 4
ROOT == 7

Permissions == 0..7

\* class User
User(id, username, passwordHash, permission, active) ==
    [id |-> id, username |-> username, passwordHash |-> passwordHash,
     permission |-> permission, active |-> active]

TRoot == <<"r", "o", "o", "t">>

SALT == <<"S", "S", "D", "B">>

\* UserManager::hashPassword: the decimal text of std::hash of the salted
\* password, taken to be free of collisions on the passwords drawn here
hashPassword(password) == <<"#">> \o password \o SALT

\* RequestContext::currentUserId and UserManager::currentUserId_ when
\* nobody is logged in
NoSession == [some |-> FALSE, val |-> 0]
NoUser == -1

\* the largest key of a map, and 0 for an empty one, as the constructors
\* compute the id counters from what they load
MaxKey(m) == IF DOMAIN m = {} THEN 0 ELSE CHOOSE k \in DOMAIN m : \A j \in DOMAIN m : j <= k

\* ------------------------------------------------------------------------
\* The database behind the handlers.  A db value gathers what one request
\* works on: the two schemas, the three maps, the id counters, the files
\* and the user table; log lists the db functions the request has called.
\* ------------------------------------------------------------------------

Put(m, k, v) == [x \in DOMAIN m \cup {k} |-> IF x = k THEN v ELSE m[x]]

Erase(m, k) == [x \in DOMAIN m \ {k} |-> m[x]]

Max(a, b) == IF a >= b THEN a ELSE b

Called(db, name) == [db EXCEPT !.log = Append(@, name)]

\* the keys of an unordered_map, in the order SaveAll writes them; the
\* order does not matter to LoadAll
RECURSIVE KeysInOrder(_)
KeysInOrder(S) ==
    IF S = {} THEN <<>>
    ELSE <<CHOOSE k \in S : \A j \in S : k <= j>>
         \o KeysInOrder(S \ {CHOOSE k \in S : \A j \in S : k <= j})

\* the entries an archive holds for the map m: key and serialized value
Entries(m, ks, save(_, _)) ==
    [i \in 1..Len(ks) |-> [key |-> ks[i], value |-> save(ks[i], m[ks[i]])]]

\* DataBaseFile::SaveAll: the file is truncated and the map archived
SaveAll(m, save(_, _)) == Entries(m, KeysInOrder(DOMAIN m), save)

\* the first entry of the file with the key k: emplace keeps the first
FirstOf(file, k) ==
    CHOOSE i \in DOMAIN file :
        /\ file[i].key = k
        /\ \A j \in DOMAIN file : file[j].key = k => i <= j

\* DataBaseFile::LoadAll: an empty file gives an empty map
LoadAll(file, load(_)) ==
    IF file = <<>> THEN <<>>
    ELSE [k \in {file[i].key : i \in DOMAIN file} |-> load(file[FirstOf(file, k)].value)]

\* Student::serialize, writing and reading
serializeStudent(id, s) == [id |-> id, groups |-> s.groups, metadata |-> s.metadata]

loadStudent(v) == Student(v.groups, v.metadata)

\* Group::serialize, writing and reading
serializeGroup(id, g) == [id |-> id, students |-> g.students, metadata |-> g.metadata]

loadGroup(v) == Group(v.students, v.metadata)

\* mutant: the erased flag is not written
saveEvent_DropsErased(id, e) ==
    [id |-> e.id, event_type |-> e.type, operating_object |-> e.ref,
     reason |-> e.reason, operate_person |-> e.person, delta_score |-> e.delta,
     erased |-> FALSE]

\* Event::save and Event::load; the time stamp is left out
saveEvent(id, e) ==
    [id |-> e.id, event_type |-> e.type, operating_object |-> e.ref,
     reason |-> e.reason, operate_person |-> e.person, delta_score |-> e.delta,
     erased |-> e.erased]

loadEvent(v) ==
    [id |-> v.id, type |-> v.event_type, ref |-> v.operating_object,
     reason |-> v.reason, person |-> v.operate_person, delta |-> v.delta_score,
     erased |-> v.erased]

\* User::serialize, writing and reading; the permission as std::uint8_t
serializeUser(id, u) ==
    [id |-> u.id, username |-> u.username, passwordHash |-> u.passwordHash,
     permission |-> u.permission % 256, active |-> u.active]

loadUser(v) == User(v.id, v.username, v.passwordHash, v.permission, v.active)

\* what SecScoreDB::commit leaves in the three files of the directory
Saved(files, students, groups, events) ==
    [files EXCEPT !.stu = SaveAll(students, serializeStudent),
                  !.grp = SaveAll(groups, serializeGroup),
                  !.evt = SaveAll(events, saveEvent)]

\* SecScoreDB::commit
commit(db) ==
    [Called(db, "commit") EXCEPT !.disk = Saved(@, db.stu, db.grp, db.evt)]

\* ++n on an int counter.  At INT_MAX the increment overflows, which is
\* undefined; this is the outcome of a build that wraps
Incremented(n) == IF n = INT_MAX THEN INT_MIN ELSE n + 1

\* SecScoreDB::allocateStudentId
allocateStudentId(db) ==
    [id |-> Incremented(db.maxId.student),
     db |-> [Called(db, "allocateStudentId") EXCEPT !.maxId.student = Incremented(@)]]

\* SecScoreDB::allocateGroupId
allocateGroupId(db) ==
    [id |-> Incremented(db.maxId.group),
     db |-> [Called(db, "allocateGroupId") EXCEPT !.maxId.group = Incremented(@)]]

\* SecScoreDB::createStudent: std::runtime_error when the id is taken
createStudent(db, id) ==
    IF id \in DOMAIN db.stu
    THEN [ok |-> FALSE, db |-> Called(db, "createStudent")]
    ELSE [ok |-> TRUE,
          db |-> [Called(db, "createStudent") EXCEPT
                     !.stu = Put(@, id, Student(<<>>, <<>>)),
                     !.maxId.student = Max(@, id)]]

\* SecScoreDB::createGroup
createGroup(db, id) ==
    IF id \in DOMAIN db.grp
    THEN [ok |-> FALSE, db |-> Called(db, "createGroup")]
    ELSE [ok |-> TRUE,
          db |-> [Called(db, "createGroup") EXCEPT
                     !.grp = Put(@, id, Group(<<>>, <<>>)),
                     !.maxId.group = Max(@, id)]]

\* mutant: an entity added under a taken id replaces the one stored
addStudent_Replacing(db, id, s) ==
    [ok |-> TRUE,
     db |-> [Called(db, "addStudent") EXCEPT
                !.stu = Put(@, id, s),
                !.maxId.student = Max(@, id)]]

\* SecScoreDB::addStudent(Student), with id the id the student carries
addStudent(db, id, s) ==
    IF id \in DOMAIN db.stu
    THEN [ok |-> FALSE, db |-> Called(db, "addStudent")]
    ELSE [ok |-> TRUE,
          db |-> [Called(db, "addStudent") EXCEPT
                     !.stu = Put(@, id, s),
                     !.maxId.student = Max(@, id)]]

\* SecScoreDB::addGroup(Group)
addGroup(db, id, g) ==
    IF id \in DOMAIN db.grp
    THEN [ok |-> FALSE, db |-> Called(db, "addGroup")]
    ELSE [ok |-> TRUE,
          db |-> [Called(db, "addGroup") EXCEPT
                     !.grp = Put(@, id, g),
                     !.maxId.group = Max(@, id)]]

\* SecScoreDB::getStudent: std::runtime_error when the id is absent
getStudent(db, id) == [ok |-> id \in DOMAIN db.stu, db |-> Called(db, "getStudent")]

\* SecScoreDB::getGroup
getGroup(db, id) == [ok |-> id \in DOMAIN db.grp, db |-> Called(db, "getGroup")]

\* SecScoreDB::deleteStudent: whether a student was erased
deleteStudent(db, id) ==
    [ok |-> id \in DOMAIN db.stu,
     db |-> [Called(db, "deleteStudent") EXCEPT !.stu = Erase(@, id)]]

\* SecScoreDB::deleteGroup
deleteGroup(db, id) ==
    [ok |-> id \in DOMAIN db.grp,
     db |-> [Called(db, "deleteGroup") EXCEPT !.grp = Erase(@, id)]]

\* class Event; the time stamp is left out
Event(id, type, ref, reason, person, delta) ==
    [id |-> id, type |-> type, ref |-> ref, reason |-> reason,
     person |-> person, delta |-> delta, erased |-> FALSE]

INVALID_ID == -1

\* mutant: an id the caller supplies does not raise _max_event_id
addEvent_KeepsCounter(db, e) ==
    IF e.id = INVALID_ID
    THEN [ok |-> TRUE, id |-> db.maxId.event + 1,
          db |-> [Called(db, "addEvent") EXCEPT
                     !.maxId.event = @ + 1,
                     !.evt = IF db.maxId.event + 1 \in DOMAIN @ THEN @
                             ELSE Put(@, db.maxId.event + 1,
                                      [e EXCEPT !.id = db.maxId.event + 1])]]
    ELSE IF e.id \in DOMAIN db.evt
    THEN [ok |-> FALSE, id |-> 0, db |-> Called(db, "addEvent")]
    ELSE [ok |-> TRUE, id |-> db.maxId.event,
          db |-> [Called(db, "addEvent") EXCEPT !.evt = Put(@, e.id, e)]]

\* SecScoreDB::addEvent: the id it returns and the db after it; a
\* std::runtime_error when the event brings an id that is taken
addEvent(db, e) ==
    IF e.id = INVALID_ID
    THEN [ok |-> TRUE, id |-> db.maxId.event + 1,
          db |-> [Called(db, "addEvent") EXCEPT
                     !.maxId.event = @ + 1,
                     !.evt = IF db.maxId.event + 1 \in DOMAIN @ THEN @
                             ELSE Put(@, db.maxId.event + 1,
                                      [e EXCEPT !.id = db.maxId.event + 1])]]
    ELSE IF e.id \in DOMAIN db.evt
    THEN [ok |-> FALSE, id |-> 0, db |-> Called(db, "addEvent")]
    ELSE [ok |-> TRUE, id |-> Max(e.id, db.maxId.event),
          db |-> [Called(db, "addEvent") EXCEPT
                     !.maxId.event = Max(e.id, @),
                     !.evt = Put(@, e.id, e)]]

\* SecScoreDB::setEventErased: std::runtime_error when the id is absent
setEventErased(db, id, isErased) ==
    IF id \notin DOMAIN db.evt
    THEN [ok |-> FALSE, db |-> Called(db, "setEventErased")]
    ELSE [ok |-> TRUE,
          db |-> [Called(db, "setEventErased") EXCEPT !.evt[id].erased = isErased]]

\* A predicate passed to getStudent or deleteStudent, as the tests write
\* them: one field read as the C++ type vt and compared with a literal.
\* It returns true or false, or throws what the read throws.
PredAgeAtLeast(n) == [key |-> "age", vt |-> "int", lit |-> IntVal(n)]

PredNameIs(s) == [key |-> "name", vt |-> "string", lit |-> StringVal(s)]

PredScoreAtLeast(n) == [key |-> "score", vt |-> "int", lit |-> IntVal(n)]

\* the comparison the lambda makes with the value read
PredHolds(p, read) ==
    IF p.vt = "string" THEN read.val.s = p.lit.s ELSE read.val.i >= p.lit.i

\* pred(wrapper) inside the try block
PredOutcome(p, read) ==
    IF ~read.ok THEN "throws" ELSE IF PredHolds(p, read) THEN "true" ELSE "false"

pred(p, meta, sch) == PredOutcome(p, WrapperGet(meta, sch, p.key, p.vt))

\* mutant: the try block is around the loop, the first throw ends the scan
RECURSIVE getStudentWhere_StopsAtThrow(_, _, _, _, _, _)
getStudentWhere_StopsAtThrow(students, sch, p, order, i, results) ==
    IF i > Len(order) THEN results
    ELSE IF pred(p, students[order[i]].metadata, sch) = "throws" THEN results
    ELSE getStudentWhere_StopsAtThrow(students, sch, p, order, i + 1,
             IF pred(p, students[order[i]].metadata, sch) = "true"
             THEN Append(results, order[i]) ELSE results)

\* SecScoreDB::getStudent(Predicate): the loop over stu from position i, in
\* the order the map is iterated; results holds the ids of the wrappers
\* pushed so far
RECURSIVE getStudentWhere(_, _, _, _, _, _)
getStudentWhere(students, sch, p, order, i, results) ==
    IF i > Len(order) THEN results
    ELSE getStudentWhere(students, sch, p, order, i + 1,
             IF pred(p, students[order[i]].metadata, sch) = "true"
             THEN Append(results, order[i]) ELSE results)

\* SecScoreDB::deleteStudent(Predicate): std::erase_if visits the students
\* from position i in iteration order; erased holds the ids erased so far
RECURSIVE deleteStudentWhere(_, _, _, _, _, _)
deleteStudentWhere(students, sch, p, order, i, erased) ==
    IF i > Len(order)
    THEN [count |-> Len(erased),
          stu |-> [id \in DOMAIN students \ {erased[k] : k \in 1..Len(erased)}
                      |-> students[id]]]
    ELSE deleteStudentWhere(students, sch, p, order, i + 1,
             IF pred(p, students[order[i]].metadata, sch) = "true"
             THEN Append(erased, order[i]) ELSE erased)

\* SecScoreDB::initStudentSchema and initGroupSchema
initStudentSchema(db, s) == [Called(db, "initStudentSchema") EXCEPT !.stu_schema = s]

initGroupSchema(db, s) == [Called(db, "initGroupSchema") EXCEPT !.grp_schema = s]

\* UserManager::findUserByUsername
findUserByUsername(db, username) ==
    IF username \notin DOMAIN db.usernameIndex THEN None
    ELSE IF db.usernameIndex[username] \notin DOMAIN db.users THEN None
    ELSE Some(db.users[db.usernameIndex[username]])

\* UserManager::findUserById
findUserById(db, userId) ==
    IF userId \notin DOMAIN db.users THEN None ELSE Some(db.users[userId])

\* UserManager::verifyPassword
verifyPassword(db, userId, password) ==
    /\ userId \in DOMAIN db.users
    /\ db.users[userId].passwordHash = hashPassword(password)

\* ------------------------------------------------------------------------
\* UserManager.  An um value gathers users_, usernameIndex_, maxUserId_ and
\* currentUserId_; an operation yields what it returns or throws, and the
\* um after it.
\* ------------------------------------------------------------------------

\* UserManager::rebuildUsernameIndex over the users loaded
rebuildUsernameIndex(table) ==
    [n \in {table[id].username : id \in DOMAIN table} |->
        CHOOSE id \in DOMAIN table : table[id].username = n]

\* UserManager::createDefaultRootUser on an empty table
createDefaultRootUser ==
    [users |-> (1 :> User(1, TRoot, hashPassword(TRoot), ROOT, TRUE)),
     usernameIndex |-> [n \in {TRoot} |-> 1],
     maxUserId |-> 1, currentUserId |-> NoUser]

\* UserManager::UserManager once users.bin is loaded
UserManagerLoaded(table) ==
    IF DOMAIN table = {} THEN createDefaultRootUser
    ELSE [users |-> table, usernameIndex |-> rebuildUsernameIndex(table),
          maxUserId |-> Max(0, MaxKey(table)), currentUserId |-> NoUser]

\* UserManager::UserManager on the file users.bin
UserManagerOpen(file) == UserManagerLoaded(LoadAll(file, loadUser))

Returned(v) == [ok |-> TRUE, err |-> "none", val |-> v]

Thrown(kind) == [ok |-> FALSE, err |-> kind, val |-> Void]

PermissionDenied == Thrown("PermissionDenied")

\* a & b on std::uint8_t
RECURSIVE BitAnd(_, _)
BitAnd(a, b) ==
    IF a = 0 \/ b = 0 THEN 0
    ELSE (a % 2) * (b % 2) + 2 * BitAnd(a \div 2, b \div 2)

\* mutant: one common bit is enough
hasPermission_AnyBit(userPerm, required) == BitAnd(userPerm, required) # 0

\* SSDB::hasPermission
hasPermission(userPerm, required) == BitAnd(userPerm, required) = required

\* mutant: a disabled user may log in
login_IgnoresActive(um, username, password) ==
    IF username \notin DOMAIN um.usernameIndex
    THEN [out |-> Returned(BoolVal(FALSE)), um |-> um]
    ELSE IF um.usernameIndex[username] \notin DOMAIN um.users
    THEN [out |-> Thrown("out_of_range"), um |-> um]
    ELSE IF um.users[um.usernameIndex[username]].passwordHash = hashPassword(password)
    THEN [out |-> Returned(BoolVal(TRUE)),
          um |-> [um EXCEPT !.currentUserId = um.users[um.usernameIndex[username]].id]]
    ELSE [out |-> Returned(BoolVal(FALSE)), um |-> um]

\* UserManager::login; users_.at throws std::out_of_range
login(um, username, password) ==
    IF username \notin DOMAIN um.usernameIndex
    THEN [out |-> Returned(BoolVal(FALSE)), um |-> um]
    ELSE IF um.usernameIndex[username] \notin DOMAIN um.users
    THEN [out |-> Thrown("out_of_range"), um |-> um]
    ELSE IF ~um.users[um.usernameIndex[username]].active
    THEN [out |-> Returned(BoolVal(FALSE)), um |-> um]
    ELSE IF um.users[um.usernameIndex[username]].passwordHash = hashPassword(password)
    THEN [out |-> Returned(BoolVal(TRUE)),
          um |-> [um EXCEPT !.currentUserId = um.users[um.usernameIndex[username]].id]]
    ELSE [out |-> Returned(BoolVal(FALSE)), um |-> um]

\* UserManager::logout
logout(um) == [out |-> Returned(Void), um |-> [um EXCEPT !.currentUserId = NoUser]]

\* UserManager::isLoggedIn
isLoggedIn(um) == um.currentUserId # NoUser

\* UserManager::checkPermission
checkPermission(um, required) ==
    IF um.currentUserId = NoUser THEN FALSE
    ELSE IF um.currentUserId \notin DOMAIN um.users THEN FALSE
    ELSE hasPermission(um.users[um.currentUserId].permission, required)

\* UserManager::requirePermission
requirePermission(um, required) ==
    IF ~checkPermission(um, required) THEN PermissionDenied ELSE Returned(Void)

\* UserManager::isCurrentUserRoot
isCurrentUserRoot(um) ==
    IF um.currentUserId = NoUser THEN FALSE
    ELSE IF um.currentUserId \notin DOMAIN um.users THEN FALSE
    ELSE um.users[um.currentUserId].permission = ROOT

\* UserManager::createUser
createUser(um, username, password, perm) ==
    IF ~isCurrentUserRoot(um) THEN [out |-> PermissionDenied, um |-> um]
    ELSE IF username \in DOMAIN um.usernameIndex
    THEN [out |-> Thrown("UsernameExists"), um |-> um]
    ELSE [out |-> Returned(IntVal(um.maxUserId + 1)),
          um |-> [um EXCEPT
                     !.maxUserId = @ + 1,
                     !.users = IF um.maxUserId + 1 \in DOMAIN @ THEN @
                               ELSE Put(@, um.maxUserId + 1,
                                        User(um.maxUserId + 1, username,
                                             hashPassword(password), perm, TRUE)),
                     !.usernameIndex = Put(@, username, um.maxUserId + 1)]]

\* UserManager::deleteUser(int)
deleteUser(um, userId) ==
    IF ~isCurrentUserRoot(um) THEN [out |-> PermissionDenied, um |-> um]
    ELSE IF userId = um.currentUserId THEN [out |-> Thrown("DeleteSelf"), um |-> um]
    ELSE IF userId \notin DOMAIN um.users THEN [out |-> Returned(BoolVal(FALSE)), um |-> um]
    ELSE [out |-> Returned(BoolVal(TRUE)),
          um |-> [um EXCEPT
                     !.usernameIndex = Erase(@, um.users[userId].username),
                     !.users = Erase(@, userId)]]

\* UserManager::deleteUser(const std::string&)
deleteUserByName(um, username) ==
    IF username \notin DOMAIN um.usernameIndex THEN [out |-> Returned(BoolVal(FALSE)), um |-> um]
    ELSE deleteUser(um, um.usernameIndex[username])

\* UserManager::setUserPermission
setUserPermission(um, userId, perm) ==
    IF ~isCurrentUserRoot(um) THEN [out |-> PermissionDenied, um |-> um]
    ELSE IF userId \notin DOMAIN um.users THEN [out |-> Thrown("NotFound"), um |-> um]
    ELSE [out |-> Returned(Void), um |-> [um EXCEPT !.users[userId].permission = perm]]

\* mutant: the old password of the own account is not compared
changePassword_SkipsOld(um, userId, newPassword, oldPassword) ==
    IF userId \notin DOMAIN um.users THEN [out |-> Thrown("NotFound"), um |-> um]
    ELSE IF userId # um.currentUserId /\ ~isCurrentUserRoot(um)
    THEN [out |-> PermissionDenied, um |-> um]
    ELSE [out |-> Returned(Void),
          um |-> [um EXCEPT !.users[userId].passwordHash = hashPassword(newPassword)]]

\* UserManager::changePassword
changePassword(um, userId, newPassword, oldPassword) ==
    IF userId \notin DOMAIN um.users THEN [out |-> Thrown("NotFound"), um |-> um]
    ELSE IF userId = um.currentUserId /\ um.users[userId].passwordHash # hashPassword(oldPassword)
    THEN [out |-> Thrown("OldPasswordIncorrect"), um |-> um]
    ELSE IF userId # um.currentUserId /\ ~isCurrentUserRoot(um)
    THEN [out |-> PermissionDenied, um |-> um]
    ELSE [out |-> Returned(Void),
          um |-> [um EXCEPT !.users[userId].passwordHash = hashPassword(newPassword)]]

\* mutant: the current user may disable itself
setUserActive_Self(um, userId, active) ==
    IF ~isCurrentUserRoot(um) THEN [out |-> PermissionDenied, um |-> um]
    ELSE IF userId \notin DOMAIN um.users THEN [out |-> Thrown("NotFound"), um |-> um]
    ELSE [out |-> Returned(Void), um |-> [um EXCEPT !.users[userId].active = active]]

\* UserManager::setUserActive
setUserActive(um, userId, active) ==
    IF ~isCurrentUserRoot(um) THEN [out |-> PermissionDenied, um |-> um]
    ELSE IF userId = um.currentUserId /\ ~active
    THEN [out |-> Thrown("DisableSelf"), um |-> um]
    ELSE IF userId \notin DOMAIN um.users THEN [out |-> Thrown("NotFound"), um |-> um]
    ELSE [out |-> Returned(Void), um |-> [um EXCEPT !.users[userId].active = active]]

\* UserManager::getNextUserId
getNextUserId(um) == um.maxUserId + 1

\* UserManager::addUser
addUser(um, user) ==
    IF user.username \in DOMAIN um.usernameIndex
    THEN [out |-> Thrown("UsernameExists"), um |-> um]
    ELSE [out |-> Returned(Void),
          um |-> [um EXCEPT
                     !.users = Put(@, user.id, user),
                     !.usernameIndex = Put(@, user.username, user.id),
                     !.maxUserId = Max(@, user.id)]]

\* UserManager::removeUser
removeUser(um, userId) ==
    IF userId \notin DOMAIN um.users THEN [out |-> Returned(BoolVal(FALSE)), um |-> um]
    ELSE [out |-> Returned(BoolVal(TRUE)),
          um |-> [um EXCEPT
                     !.usernameIndex = Erase(@, um.users[userId].username),
                     !.users = Erase(@, userId)]]

\* UserManager::updateUserPermission
updateUserPermission(um, userId, perm) ==
    IF userId \notin DOMAIN um.users THEN [out |-> Thrown("NotFound"), um |-> um]
    ELSE [out |-> Returned(Void), um |-> [um EXCEPT !.users[userId].permission = perm]]

\* UserManager::updateUserPassword
updateUserPassword(um, userId, newPassword) ==
    IF userId \notin DOMAIN um.users THEN [out |-> Thrown("NotFound"), um |-> um]
    ELSE [out |-> Returned(Void),
          um |-> [um EXCEPT !.users[userId].passwordHash = hashPassword(newPassword)]]

\* UserManager::updateUserActive
updateUserActive(um, userId, active) ==
    IF userId \notin DOMAIN um.users THEN [out |-> Thrown("NotFound"), um |-> um]
    ELSE [out |-> Returned(Void), um |-> [um EXCEPT !.users[userId].active = active]]

\* UserManager::commit, called on the manager of the db
commitUsers(db) == [db EXCEPT !.disk.users = SaveAll(db.users, serializeUser)]

\* ------------------------------------------------------------------------
\* The websocket handlers.  A handler yields its outcome (the data of the
\* response, or the exception thrown) and the request context after it:
\* the db and the connection's session.
\* ------------------------------------------------------------------------

\* a std::exception that is no ApiError carries no code
RuntimeError(kind) == [ok |-> FALSE, val |-> FALSE, err |-> kind, code |-> 0, visited |-> <<>>]

OkData(d) == [ok |-> TRUE, err |-> "none", code |-> 200, data |-> d]

Answer(out, ctx) == [out |-> out, ctx |-> ctx]

WithDb(ctx, db) == [ctx EXCEPT !.db = db]

\* a JSON object with the members m, and a JSON value that is no object
Object(m) == [kind |-> "object", members |-> m]
NotObject == [kind |-> "array", members |-> <<>>]

\* the order in which nlohmann::json iterates the members of an object:
\* by key
KeyOrder == <<"age", "name", "score">>

KeysOf(m) == SelectSeq(KeyOrder, LAMBDA k : k \in DOMAIN m)

\* ensureSchemaReady: whether it returns; otherwise ApiError 422
ensureSchemaReady(s) == s # <<>>

SchemaNotDefined == ApiError(422, "SchemaNotDefined", <<>>)

TString == <<"s", "t", "r", "i", "n", "g">>
TInt == <<"i", "n", "t">>
TIntUpper == <<"I", "N", "T">>
TDouble == <<"d", "o", "u", "b", "l", "e">>
TBool == <<"b", "o", "o", "l">>

\* parseFieldType: None for ApiError 400
parseFieldType(value) ==
    IF toLowerCopy(value) = TString THEN [some |-> TRUE, val |-> "String"]
    ELSE IF toLowerCopy(value) = TInt THEN [some |-> TRUE, val |-> "Int"]
    ELSE IF toLowerCopy(value) = TDouble THEN [some |-> TRUE, val |-> "Double"]
    ELSE [some |-> FALSE, val |-> "Unknown"]

\* parseSchema: the SchemaDef of a JSON schema, or ApiError 400
parseSchema(schemaJson) ==
    IF schemaJson.kind # "object" \/ DOMAIN schemaJson.members = {}
    THEN [ok |-> FALSE, schema |-> <<>>]
    ELSE IF \E f \in DOMAIN schemaJson.members :
               \/ ~IsString(schemaJson.members[f])
               \/ ~parseFieldType(schemaJson.members[f].s).some
    THEN [ok |-> FALSE, schema |-> <<>>]
    ELSE [ok |-> TRUE,
          schema |-> [f \in DOMAIN schemaJson.members |->
                         parseFieldType(schemaJson.members[f].s).val]]

\* assignDynamicFields, one member: the type test of the handler, then the
\* accessor's assignment (value.get<long long>() is an integral type, which
\* the accessor treats as it treats int)
AssignField(meta, schema, field, value) ==
    IF field \notin DOMAIN schema
    THEN [out |-> ApiError(422, "FieldNotInSchema", <<>>), meta |-> meta]
    ELSE IF schema[field] = "String"
    THEN IF ~IsString(value)
         THEN [out |-> ApiError(422, "RequiresString", <<>>), meta |-> meta]
         ELSE WrapperSet(meta, schema, field, "string", value)
    ELSE IF schema[field] = "Int"
    THEN IF value.t # "int"
         THEN [out |-> ApiError(422, "RequiresInteger", <<>>), meta |-> meta]
         ELSE WrapperSet(meta, schema, field, "int", value)
    ELSE IF schema[field] = "Double"
    THEN IF ~IsNumber(value)
         THEN [out |-> ApiError(422, "RequiresNumber", <<>>), meta |-> meta]
         ELSE WrapperSet(meta, schema, field, "double", DoubleVal(GetDouble(value)))
    ELSE [out |-> ApiError(422, "UnsupportedFieldType", <<>>), meta |-> meta]

RECURSIVE AssignFields(_, _, _, _, _)

AssignNext(a, schema, data, keys, i) ==
    IF a.out.ok THEN AssignFields(a.meta, schema, data, keys, i + 1) ELSE a

\* assignDynamicFields from the i-th member on: member by member, stopping
\* at the first exception with the earlier members already written
AssignFields(meta, schema, data, keys, i) ==
    IF i > Len(keys) THEN [out |-> OkData(Void), meta |-> meta]
    ELSE AssignNext(AssignField(meta, schema, keys[i], data.members[keys[i]]),
                    schema, data, keys, i)

\* assignDynamicFields
assignDynamicFields(meta, data, schema) ==
    IF data.kind # "object"
    THEN [out |-> ApiError(400, "DataNotObject", <<>>), meta |-> meta]
    ELSE AssignFields(meta, schema, data, KeysOf(data.members), 1)

\* the entity kinds with what handleStudent and handleGroup hand to the
\* generic handlers: schema, map, factory, cleanup, allocator, fetcher
\* and deleter
SchemaOf(kind, db) == IF kind = "student" THEN db.stu_schema ELSE db.grp_schema

EntitiesOf(kind, db) == IF kind = "student" THEN db.stu ELSE db.grp

Factory(kind, db, id) == IF kind = "student" THEN createStudent(db, id) ELSE createGroup(db, id)

Allocator(kind, db) == IF kind = "student" THEN allocateStudentId(db) ELSE allocateGroupId(db)

Fetcher(kind, db, id) == IF kind = "student" THEN getStudent(db, id) ELSE getGroup(db, id)

Deleter(kind, db, id) == IF kind = "student" THEN deleteStudent(db, id) ELSE deleteGroup(db, id)

\* the write of a wrapper: the property bag of entity id replaced
WithMeta(kind, db, id, meta) ==
    IF kind = "student" THEN [db EXCEPT !.stu[id].metadata = meta]
    ELSE [db EXCEPT !.grp[id].metadata = meta]

Success(item, id) == [index |-> item.index.i, success |-> TRUE, id |-> id, message |-> "none"]

Failure(item, kindOfError) == [index |-> item.index.i, success |-> FALSE, id |-> 0, message |-> kindOfError]

\* handleCreate, one item, after the assignment: on an exception the
\* entity is removed again
CreateAssigned(kind, item, id, db, a) ==
    IF a.out.ok
    THEN [result |-> Success(item, id), db |-> WithMeta(kind, db, id, a.meta)]
    ELSE [result |-> Failure(item, a.out.err),
          db |-> Deleter(kind, WithMeta(kind, db, id, a.meta), id).db]

\* handleCreate, one item, after the factory
CreateMade(kind, item, id, f) ==
    IF ~f.ok
    THEN [result |-> Failure(item, "AlreadyExists"), db |-> f.db]
    ELSE CreateAssigned(kind, item, id, f.db,
             assignDynamicFields(EntitiesOf(kind, f.db)[id].metadata, item.data,
                                 SchemaOf(kind, f.db)))

\* handleCreate, one item, once its id is known
CreateWithId(kind, item, a) == CreateMade(kind, item, a.id, Factory(kind, a.db, a.id))

\* handleCreate, the body of the loop
CreateItem(kind, item, db) ==
    IF ~item.hasData
    THEN [result |-> Failure(item, "DataRequired"), db |-> db]
    ELSE IF ~item.hasId \/ item.id.t = "null"
    THEN CreateWithId(kind, item, Allocator(kind, db))
    ELSE IF item.id.t = "int"
    THEN CreateWithId(kind, item, [id |-> item.id.i, db |-> db])
    ELSE [result |-> Failure(item, "IdNotInteger"), db |-> db]

RECURSIVE CreateItems(_, _, _, _, _)

CreateNext(kind, items, i, r, results) ==
    CreateItems(kind, items, i + 1, r.db, Append(results, r.result))

\* handleCreate, the loop over payload.items; item.value("index", 0) is
\* evaluated outside the try block and throws json::type_error when the
\* member is no number
CreateItems(kind, items, i, db, results) ==
    IF i > Len(items) THEN [results |-> results, db |-> db, thrown |-> FALSE]
    ELSE IF items[i].index.t # "int" THEN [results |-> results, db |-> db, thrown |-> TRUE]
    ELSE CreateNext(kind, items, i, CreateItem(kind, items[i], db), results)

CountOf(results) == Len(SelectSeq(results, LAMBDA r : r.success))

\* a json::exception leaves the handler: the callback answers it with 400
JsonException(kind) ==
    [ok |-> FALSE, val |-> FALSE, err |-> kind, code |-> 400, visited |-> <<>>]

CreateAnswer(c) ==
    IF c.thrown THEN [out |-> JsonException("json::type_error"), db |-> c.db]
    ELSE [out |-> OkData([count |-> CountOf(c.results), results |-> c.results]),
          db |-> c.db]

\* mutant: the schema is looked at only after the items were handled
handleCreate_SchemaLast(kind, payload, db) ==
    IF ~payload.hasItems
    THEN [out |-> ApiError(400, "ItemsNotArray", <<>>), db |-> db]
    ELSE IF ~ensureSchemaReady(SchemaOf(kind, db))
    THEN [out |-> SchemaNotDefined, db |-> CreateItems(kind, payload.items, 1, db, <<>>).db]
    ELSE CreateAnswer(CreateItems(kind, payload.items, 1, db, <<>>))

\* handleCreate
handleCreate(kind, payload, db) ==
    IF ~ensureSchemaReady(SchemaOf(kind, db))
    THEN [out |-> SchemaNotDefined, db |-> db]
    ELSE IF ~payload.hasItems
    THEN [out |-> ApiError(400, "ItemsNotArray", <<>>), db |-> db]
    ELSE CreateAnswer(CreateItems(kind, payload.items, 1, db, <<>>))

RECURSIVE QueryItems(_, _, _, _, _, _, _)

\* mutant: the limit is compared before the item is added
QueryNext_LimitBeforePush(ents, schema, payload, order, i, limit, items, data, m) ==
    IF ~m.ok THEN [out |-> m, items |-> items]
    ELSE IF ~m.val THEN QueryItems(ents, schema, payload, order, i + 1, limit, items)
    ELSE IF limit # 0 /\ Len(items) >= limit
    THEN [out |-> OkData(Void), items |-> Append(items, [id |-> order[i], data |-> data])]
    ELSE QueryItems(ents, schema, payload, order, i + 1, limit,
                    Append(items, [id |-> order[i], data |-> data]))

\* handleQuery, one entity of the loop: an evaluation error ends the request,
\* a match is pushed and the loop left once the limit is reached
QueryNext(ents, schema, payload, order, i, limit, items, data, m) ==
    IF ~m.ok THEN [out |-> m, items |-> items]
    ELSE IF ~m.val THEN QueryItems(ents, schema, payload, order, i + 1, limit, items)
    ELSE IF limit # 0 /\ Len(items) + 1 >= limit
    THEN [out |-> OkData(Void), items |-> Append(items, [id |-> order[i], data |-> data])]
    ELSE QueryItems(ents, schema, payload, order, i + 1, limit,
                    Append(items, [id |-> order[i], data |-> data]))

QueryMatch(ents, schema, payload, order, i, limit, items, data) ==
    QueryNext(ents, schema, payload, order, i, limit, items, data,
              IF payload.hasLogic /\ payload.logic.kind # "null"
              THEN evaluateLogicNode(data, payload.logic, schema)
              ELSE Bool(TRUE, <<>>))

\* handleQuery, the loop over the map, which visits the entities in the
\* order the hash table holds them; limit 0 stands for no limit
QueryItems(ents, schema, payload, order, i, limit, items) ==
    IF i > Len(order) THEN [out |-> OkData(Void), items |-> items]
    ELSE QueryMatch(ents, schema, payload, order, i, limit, items,
                    materializeEntityData(ents[order[i]].metadata, schema))

QueryAnswer(q, db) ==
    IF q.out.ok THEN [out |-> OkData([items |-> q.items]), db |-> db]
    ELSE [out |-> q.out, db |-> db]

\* json::is_number_unsigned
IsUnsigned(j) == j.t = "int" /\ j.i >= 0

\* handleQuery; order is the iteration order of the map
handleQuery(kind, payload, db, order) ==
    IF ~ensureSchemaReady(SchemaOf(kind, db))
    THEN [out |-> SchemaNotDefined, db |-> db]
    ELSE IF payload.hasLimit /\ ~IsUnsigned(payload.limit)
    THEN [out |-> ApiError(400, "LimitNotUnsigned", <<>>), db |-> db]
    ELSE QueryAnswer(QueryItems(EntitiesOf(kind, db), SchemaOf(kind, db), payload, order, 1,
                                IF payload.hasLimit THEN payload.limit.i ELSE 0, <<>>),
                     Called(db, "entities"))

UpdateAssigned(kind, id, db, a) ==
    [out |-> IF a.out.ok THEN OkData([id |-> id, updated |-> TRUE]) ELSE a.out,
     db |-> WithMeta(kind, db, id, a.meta)]

UpdateFetched(kind, payload, id, f) ==
    IF ~f.ok THEN [out |-> RuntimeError("NotFound"), db |-> f.db]
    ELSE UpdateAssigned(kind, id, f.db,
             assignDynamicFields(EntitiesOf(kind, f.db)[id].metadata, payload.set,
                                 SchemaOf(kind, f.db)))

\* handleUpdate
handleUpdate(kind, payload, db) ==
    IF ~ensureSchemaReady(SchemaOf(kind, db))
    THEN [out |-> SchemaNotDefined, db |-> db]
    ELSE IF ~payload.hasId \/ payload.id.t # "int"
    THEN [out |-> ApiError(400, "IdNotInteger", <<>>), db |-> db]
    ELSE IF ~payload.hasSet
    THEN [out |-> ApiError(400, "SetRequired", <<>>), db |-> db]
    ELSE UpdateFetched(kind, payload, payload.id.i, Fetcher(kind, db, payload.id.i))

DeleteDone(kind, id, d) ==
    IF ~d.ok THEN [out |-> ApiError(404, "NotFound", <<>>), db |-> d.db]
    ELSE [out |-> OkData([id |-> id, deleted |-> TRUE]), db |-> d.db]

\* handleDelete
handleDelete(kind, payload, db) ==
    IF ~payload.hasId \/ payload.id.t # "int"
    THEN [out |-> ApiError(400, "IdNotInteger", <<>>), db |-> db]
    ELSE DeleteDone(kind, payload.id.i, Deleter(kind, db, payload.id.i))

\* the commit that follows a create which made something
CreateCommitted(r) ==
    IF r.out.ok /\ r.out.data.count > 0 THEN [out |-> r.out, db |-> commit(r.db)] ELSE r

\* the commit that follows an update or a delete which did not throw
Committed(r) == IF r.out.ok THEN [out |-> r.out, db |-> commit(r.db)] ELSE r

\* handleStudent and handleGroup, which differ in the entity kind only
HandleEntity(kind, action, payload, db, order) ==
    IF action = "create" THEN CreateCommitted(handleCreate(kind, payload, db))
    ELSE IF action = "query" THEN handleQuery(kind, payload, db, order)
    ELSE IF action = "update" THEN Committed(handleUpdate(kind, payload, db))
    ELSE IF action = "delete" THEN Committed(handleDelete(kind, payload, db))
    ELSE [out |-> ApiError(400, "UnsupportedAction", <<>>), db |-> db]

OfDb(r, ctx) == Answer(r.out, WithDb(ctx, r.db))

\* handleStudent
handleStudent(action, payload, ctx, order) ==
    OfDb(HandleEntity("student", action, payload, ctx.db, order), ctx)

\* handleGroup
handleGroup(action, payload, ctx, order) ==
    OfDb(HandleEntity("group", action, payload, ctx.db, order), ctx)

TStudent == <<"s", "t", "u", "d", "e", "n", "t">>
TGroup == <<"g", "r", "o", "u", "p">>
TGroupUpper == <<"G", "r", "o", "u", "p">>
TTeacher == <<"t", "e", "a", "c", "h", "e", "r">>

DefineTarget(target, p, ctx) ==
    IF ~p.ok THEN Answer(ApiError(400, "SchemaInvalid", <<>>), ctx)
    ELSE IF target = TStudent
    THEN Answer(OkData([target |-> target, fields |-> Cardinality(DOMAIN p.schema)]),
                WithDb(ctx, initStudentSchema(ctx.db, p.schema)))
    ELSE IF target = TGroup
    THEN Answer(OkData([target |-> target, fields |-> Cardinality(DOMAIN p.schema)]),
                WithDb(ctx, initGroupSchema(ctx.db, p.schema)))
    ELSE Answer(ApiError(400, "TargetInvalid", <<>>), ctx)

\* handleSystem
handleSystem(action, payload, ctx) ==
    IF action = "commit"
    THEN Answer(OkData([committed |-> TRUE]), WithDb(ctx, commit(ctx.db)))
    ELSE IF action # "define"
    THEN Answer(ApiError(400, "UnsupportedAction", <<>>), ctx)
    ELSE IF ~payload.target.some \/ ~IsString(payload.target.val)
    THEN Answer(ApiError(400, "TargetNotString", <<>>), ctx)
    ELSE IF ~payload.schema.some
    THEN Answer(ApiError(400, "SchemaRequired", <<>>), ctx)
    ELSE DefineTarget(toLowerCopy(payload.target.val.s), parseSchema(payload.schema.val), ctx)

\* a - b on doubles
DoubleSub(a, b) ==
    NormDec(a.m * Pow10(a.e - (IF a.e < b.e THEN a.e ELSE b.e))
              - b.m * Pow10(b.e - (IF a.e < b.e THEN a.e ELSE b.e)),
            IF a.e < b.e THEN a.e ELSE b.e)

\* std::llround: to the nearest integer, halves away from zero
Llround(x) ==
    IF x.e >= 0 THEN x.m * Pow10(x.e)
    ELSE (IF x.m < 0 THEN -1 ELSE 1) *
         (Abs(x.m) \div Pow10(0 - x.e)
            + (IF 2 * (Abs(x.m) % Pow10(0 - x.e)) >= Pow10(0 - x.e) THEN 1 ELSE 0))

\* EventType::Student and EventType::Group
EventTypeStudent == 1
EventTypeGroup == 2

\* parseEventType: whether the number names an event type
parseEventType(type) == type \in {EventTypeStudent, EventTypeGroup}

EventAdded(a, ctx) ==
    IF ~a.ok THEN Answer(RuntimeError("AlreadyExists"), WithDb(ctx, a.db))
    ELSE Answer(OkData([id |-> a.id]), WithDb(ctx, commit(a.db)))

ErasedSet(payload, s, ctx) ==
    IF ~s.ok THEN Answer(RuntimeError("NotFound"), WithDb(ctx, s.db))
    ELSE Answer(OkData([id |-> payload.id.val.i, erased |-> payload.erased.val.b]),
                WithDb(ctx, commit(s.db)))

\* handleEvent
handleEvent(action, payload, ctx) ==
    IF action = "create"
    THEN IF ~payload.id.some \/ payload.id.val.t # "null"
         THEN Answer(ApiError(422, "IdNotNull", <<>>), ctx)
         ELSE IF ~payload.type.some \/ payload.type.val.t # "int"
         THEN Answer(ApiError(400, "TypeNotInteger", <<>>), ctx)
         ELSE IF ~payload.ref_id.some \/ payload.ref_id.val.t # "int"
         THEN Answer(ApiError(400, "RefNotInteger", <<>>), ctx)
         ELSE IF ~payload.desc.some \/ ~IsString(payload.desc.val)
         THEN Answer(ApiError(400, "DescNotString", <<>>), ctx)
         ELSE IF ~payload.val_prev.some \/ ~payload.val_curr.some
         THEN Answer(ApiError(400, "ValuesRequired", <<>>), ctx)
         ELSE IF ~IsNumber(payload.val_prev.val) \/ ~IsNumber(payload.val_curr.val)
         THEN Answer(ApiError(422, "NotNumeric", <<>>), ctx)
         ELSE IF ~parseEventType(payload.type.val.i)
         THEN Answer(ApiError(422, "EventTypeInvalid", <<>>), ctx)
         ELSE EventAdded(addEvent(ctx.db,
                  Event(INVALID_ID, payload.type.val.i, payload.ref_id.val.i,
                        payload.desc.val.s, 0,
                        Llround(DoubleSub(GetDouble(payload.val_curr.val),
                                          GetDouble(payload.val_prev.val))))), ctx)
    ELSE IF action = "update"
    THEN IF ~payload.id.some \/ payload.id.val.t # "int"
         THEN Answer(ApiError(400, "IdNotInteger", <<>>), ctx)
         ELSE IF ~payload.erased.some \/ payload.erased.val.t # "bool"
         THEN Answer(ApiError(400, "ErasedNotBoolean", <<>>), ctx)
         ELSE ErasedSet(payload, setEventErased(ctx.db, payload.id.val.i, payload.erased.val.b), ctx)
    ELSE Answer(ApiError(400, "UnsupportedAction", <<>>), ctx)

\* RequestContext::login and logout
CtxLogin(ctx, userId) == [ctx EXCEPT !.session = [some |-> TRUE, val |-> userId]]

CtxLogout(ctx) == [ctx EXCEPT !.session = NoSession]

\* mutant: a disabled user may log in
LoginFound_IgnoresActive(u, password, ctx) ==
    IF u.some /\ verifyPassword(ctx.db, u.val.id, password)
    THEN Answer(OkData([success |-> TRUE, id |-> u.val.id]), CtxLogin(ctx, u.val.id))
    ELSE Answer(ApiError(401, "InvalidCredentials", <<>>), ctx)

\* handleUser, action login, once the user name was looked up
LoginFound(u, password, ctx) ==
    IF u.some /\ u.val.active /\ verifyPassword(ctx.db, u.val.id, password)
    THEN Answer(OkData([success |-> TRUE, id |-> u.val.id]), CtxLogin(ctx, u.val.id))
    ELSE Answer(ApiError(401, "InvalidCredentials", <<>>), ctx)

CurrentFound(u, ctx) ==
    IF u.some THEN Answer(OkData([logged_in |-> TRUE, id |-> u.val.id]), ctx)
    ELSE Answer(OkData([logged_in |-> FALSE, id |-> 0]), CtxLogout(ctx))

TRead == <<"r", "e", "a", "d">>
TWrite == <<"w", "r", "i", "t", "e">>
TDelete == <<"d", "e", "l", "e", "t", "e">>
TNone == <<"n", "o", "n", "e">>

\* parsePermissionFromJson on the lower-case text of a string: the exact
\* names the code lists first give what the search for read, write and
\* delete gives, except root and none
PermissionOfText(str) ==
    IF str = TRoot THEN ROOT
    ELSE IF str = TNone THEN NONE
    ELSE (IF Find(str, TRead) THEN READ ELSE 0)
         + (IF Find(str, TWrite) THEN WRITE ELSE 0)
         + (IF Find(str, TDelete) THEN DELETE ELSE 0)

\* parsePermissionFromJson; the requests drawn carry no array
parsePermissionFromJson(val) ==
    IF IsString(val) THEN [ok |-> TRUE, val |-> PermissionOfText(toLowerCopy(val.s))]
    ELSE [ok |-> FALSE, val |-> NONE]

\* handleUser, action create: what addUser did decides the answer; the
\* manager stays as login left it when addUser throws
UserAdded(added, newId, ctx) ==
    IF ~added.out.ok
    THEN Answer(ApiError(409, added.out.err, <<>>), WithDb(ctx, added.um))
    ELSE Answer(OkData([success |-> TRUE, id |-> newId]),
                WithDb(ctx, logout(commitUsers(added.um)).um))

\* std::out_of_range thrown by login is no std::runtime_error and leaves
\* the handler as it is
UserCreateAs(logged, payload, perm, ctx) ==
    IF ~logged.out.ok THEN Answer(RuntimeError(logged.out.err), WithDb(ctx, logged.um))
    ELSE UserAdded(addUser(logged.um,
                           User(getNextUserId(logged.um), payload.username.val.s,
                                hashPassword(payload.password.val.s), perm, TRUE)),
                   getNextUserId(logged.um), ctx)

UserCreate(payload, currentUser, isRoot, ctx) ==
    IF ~isRoot THEN Answer(ApiError(403, "OnlyRoot", <<>>), ctx)
    ELSE IF ~payload.username.some \/ ~IsString(payload.username.val)
    THEN Answer(ApiError(400, "UsernameNotString", <<>>), ctx)
    ELSE IF ~payload.password.some \/ ~IsString(payload.password.val)
    THEN Answer(ApiError(400, "PasswordNotString", <<>>), ctx)
    ELSE IF payload.permission.some /\ ~parsePermissionFromJson(payload.permission.val).ok
    THEN Answer(ApiError(422, "PermissionNotText", <<>>), ctx)
    ELSE UserCreateAs(login(ctx.db, currentUser.username, <<>>), payload,
                      IF payload.permission.some
                      THEN parsePermissionFromJson(payload.permission.val).val
                      ELSE READ,
                      ctx)

\* handleUser, action delete: the id the payload names, -1 for a user name
\* nobody has
UserToDelete(payload, db) ==
    IF payload.id.some /\ payload.id.val.t = "int" THEN payload.id.val.i
    ELSE IF findUserByUsername(db, payload.username.val.s).some
    THEN findUserByUsername(db, payload.username.val.s).val.id
    ELSE -1

\* the ApiError 404 thrown inside the try block when removeUser returns
\* false is a std::runtime_error: the catch clause answers it with code 400
UserRemoved(removed, ctx) ==
    IF ~removed.out.val.b THEN Answer(ApiError(400, "UserNotFound", <<>>), ctx)
    ELSE Answer(OkData([success |-> TRUE, deleted |-> TRUE]),
                WithDb(ctx, commitUsers(removed.um)))

UserDelete(payload, isRoot, ctx) ==
    IF ~isRoot THEN Answer(ApiError(403, "OnlyRoot", <<>>), ctx)
    ELSE IF ~(payload.id.some /\ payload.id.val.t = "int")
            /\ ~(payload.username.some /\ IsString(payload.username.val))
    THEN Answer(ApiError(400, "IdOrUsernameRequired", <<>>), ctx)
    ELSE IF UserToDelete(payload, ctx.db) < 0
    THEN Answer(ApiError(404, "UserNotFound", <<>>), ctx)
    ELSE IF UserToDelete(payload, ctx.db) = ctx.session.val
    THEN Answer(ApiError(400, "DeleteSelf", <<>>), ctx)
    ELSE UserRemoved(removeUser(ctx.db, UserToDelete(payload, ctx.db)), ctx)

\* handleUser, action update.  The three parts run in turn inside one try
\* block; st is the db so far and what was thrown, if anything.  Whatever
\* is thrown there, an ApiError too, is a std::runtime_error, and the catch
\* clause answers it with code 400; what an earlier part changed stays.
Going(db) == [ok |-> TRUE, err |-> "none", db |-> db]

Stopped(err, db) == [ok |-> FALSE, err |-> err, db |-> db]

Updated(r) == IF r.out.ok THEN Going(r.um) ELSE Stopped(r.out.err, r.um)

UpdatePermission(payload, userId, isRoot, db) ==
    IF ~payload.permission.some THEN Going(db)
    ELSE IF ~isRoot THEN Stopped("OnlyRoot", db)
    ELSE IF ~parsePermissionFromJson(payload.permission.val).ok
    THEN Stopped("PermissionNotText", db)
    ELSE IF ~findUserById(db, userId).some THEN Stopped("UserNotFound", db)
    ELSE Updated(updateUserPermission(db, userId,
                                      parsePermissionFromJson(payload.permission.val).val))

\* mutant: any session may change the password of another user
UpdatePassword_AnySession(payload, userId, isRoot, sess, st) ==
    IF ~st.ok THEN st
    ELSE IF ~(payload.new_password.some /\ IsString(payload.new_password.val)) THEN st
    ELSE IF userId = sess.val
            /\ ~(payload.old_password.some /\ IsString(payload.old_password.val))
    THEN Stopped("OldPasswordRequired", st.db)
    ELSE IF userId = sess.val /\ ~verifyPassword(st.db, userId, payload.old_password.val.s)
    THEN Stopped("OldPasswordIncorrect", st.db)
    ELSE Updated(updateUserPassword(st.db, userId, payload.new_password.val.s))

UpdatePassword(payload, userId, isRoot, sess, st) ==
    IF ~st.ok THEN st
    ELSE IF ~(payload.new_password.some /\ IsString(payload.new_password.val)) THEN st
    ELSE IF userId = sess.val
            /\ ~(payload.old_password.some /\ IsString(payload.old_password.val))
    THEN Stopped("OldPasswordRequired", st.db)
    ELSE IF userId = sess.val /\ ~verifyPassword(st.db, userId, payload.old_password.val.s)
    THEN Stopped("OldPasswordIncorrect", st.db)
    ELSE IF userId # sess.val /\ ~isRoot THEN Stopped("OnlyRoot", st.db)
    ELSE Updated(updateUserPassword(st.db, userId, payload.new_password.val.s))

UpdateActive(payload, userId, isRoot, sess, st) ==
    IF ~st.ok THEN st
    ELSE IF ~(payload.active.some /\ payload.active.val.t = "bool") THEN st
    ELSE IF ~isRoot THEN Stopped("OnlyRoot", st.db)
    ELSE IF userId = sess.val /\ ~payload.active.val.b THEN Stopped("DisableSelf", st.db)
    ELSE Updated(updateUserActive(st.db, userId, payload.active.val.b))

UserUpdated(st, userId, ctx) ==
    IF ~st.ok THEN Answer(ApiError(400, st.err, <<>>), WithDb(ctx, st.db))
    ELSE Answer(OkData([success |-> TRUE, id |-> userId]), WithDb(ctx, commitUsers(st.db)))

UserUpdate(payload, isRoot, ctx) ==
    IF ~payload.id.some \/ payload.id.val.t # "int"
    THEN Answer(ApiError(400, "IdNotInteger", <<>>), ctx)
    ELSE UserUpdated(
             UpdateActive(payload, payload.id.val.i, isRoot, ctx.session,
                 UpdatePassword(payload, payload.id.val.i, isRoot, ctx.session,
                     UpdatePermission(payload, payload.id.val.i, isRoot, ctx.db))),
             payload.id.val.i, ctx)

\* handleUser behind the login gate: the administration of the users by
\* the user of the session
UserAdministration(action, payload, currentUser, isRoot, ctx) ==
    IF action = "create" THEN UserCreate(payload, currentUser, isRoot, ctx)
    ELSE IF action = "delete" THEN UserDelete(payload, isRoot, ctx)
    ELSE IF action = "update" THEN UserUpdate(payload, isRoot, ctx)
    ELSE IF action \in {"query", "list"} THEN Answer(OkData([users |-> ctx.db.users]), ctx)
    ELSE Answer(ApiError(400, "UnsupportedAction", <<>>), ctx)

\* handleUser
handleUser(action, payload, ctx) ==
    IF action = "login"
    THEN IF ~payload.username.some \/ ~IsString(payload.username.val)
         THEN Answer(ApiError(400, "UsernameNotString", <<>>), ctx)
         ELSE IF ~payload.password.some \/ ~IsString(payload.password.val)
         THEN Answer(ApiError(400, "PasswordNotString", <<>>), ctx)
         ELSE LoginFound(findUserByUsername(ctx.db, payload.username.val.s),
                         payload.password.val.s, ctx)
    ELSE IF action = "logout"
    THEN Answer(OkData([success |-> TRUE]), CtxLogout(ctx))
    ELSE IF action = "current"
    THEN IF ~ctx.session.some
         THEN Answer(OkData([logged_in |-> FALSE, id |-> 0]), ctx)
         ELSE CurrentFound(findUserById(ctx.db, ctx.session.val), ctx)
    ELSE IF ~ctx.session.some
    THEN Answer(ApiError(401, "LoginRequired", <<>>), ctx)
    ELSE IF ~findUserById(ctx.db, ctx.session.val).some
    THEN Answer(ApiError(401, "SessionExpired", <<>>), CtxLogout(ctx))
    ELSE UserAdministration(action, payload, findUserById(ctx.db, ctx.session.val).val,
             hasPermission(findUserById(ctx.db, ctx.session.val).val.permission, ROOT),
             ctx)

\* dispatch
dispatch(category, action, payload, ctx, order) ==
    IF category = "system" THEN handleSystem(action, payload, ctx)
    ELSE IF category = "student" THEN handleStudent(action, payload, ctx, order)
    ELSE IF category = "group" THEN handleGroup(action, payload, ctx, order)
    ELSE IF category = "event" THEN handleEvent(action, payload, ctx)
    ELSE IF category = "user" THEN handleUser(action, payload, ctx)
    ELSE Answer(ApiError(400, "UnsupportedCategory", <<>>), ctx)

\* makeOkResponse and makeErrorResponse, as the message callback sends
\* them: an ApiError with its code, any other std::exception with 500
Response(out) ==
    IF out.ok THEN [status |-> "ok", code |-> 200, err |-> "none"]
    ELSE [status |-> "error", code |-> IF out.code = 0 THEN 500 ELSE out.code, err |-> out.err]

\* ------------------------------------------------------------------------
\* State
\* ------------------------------------------------------------------------

VARIABLES
    schema,   \* SecScoreDB::_stu_schema: field name -> FieldType
    stu,      \* SecScoreDB::stu: student id -> Student
    logic,    \* payload.logic of the query request being handled
    res,      \* the last call: its name, its arguments and its outcome
    grp_schema,     \* SecScoreDB::_grp_schema
    grp,            \* SecScoreDB::grp: group id -> Group
    evt,            \* SecScoreDB::evt: event id -> Event
    maxId,          \* SecScoreDB::_max_student_id, _max_group_id, _max_event_id
    disk,           \* what the last commit wrote to the database files
    session,        \* RequestContext::currentUserId of the connection
    peer,           \* RequestContext::currentUserId of a second connection
    mutex,          \* RequestContext::mutex: the connection holding it, or 0
    running,        \* where the callback of each connection is in its handler
    users,          \* UserManager::users_: user id -> User
    usernameIndex,  \* UserManager::usernameIndex_: user name -> user id
    maxUserId,      \* UserManager::maxUserId_
    currentUserId   \* UserManager::currentUserId_

\* the state of the database the accessor and the evaluator do not touch
aux == <<grp_schema, grp, evt, maxId, disk, session, peer, mutex, running,
         users, usernameIndex, maxUserId, currentUserId>>

vars == <<schema, stu, logic, res, aux>>

MaxStudents == 2

StudentIds == 1..MaxStudents

Names == {"age", "name"}

\* texts
TEmpty == <<>>
TAbc == <<"a", "b", "c">>
T123abc == <<"1", "2", "3", "a", "b", "c">>
T20 == <<"2", "0">>
TAlice == <<"A", "l", "i", "c", "e">>
TBob == <<"B", "o", "b">>
TLic == <<"l", "i", "c">>

\* the property bags over the texts ts
BagsOver(ts) == UNION {[d -> ts] : d \in SUBSET Names}

\* the schemas over the field types tys
SchemasOver(tys) == UNION {[d -> tys] : d \in SUBSET Names}

\* no callback is running
NotRunning == [c \in {1, 2} |-> [pc |-> "idle"]]

\* SecScoreDB::SecScoreDB and UserManager::UserManager on a database
\* directory holding students.bin only: the students are loaded, the
\* schemas are empty unless defined, the id counters are the largest ids
\* loaded, and the default root user is created in memory
AuxInit ==
    /\ grp_schema = <<>>
    /\ grp = <<>>
    /\ evt = <<>>
    /\ maxId = [student |-> MaxKey(stu), group |-> 0, event |-> 0]
    /\ disk = [stu |-> SaveAll(stu, serializeStudent), grp |-> <<>>, evt |-> <<>>,
               users |-> <<>>]
    /\ session = NoSession
    /\ peer = NoSession
    /\ mutex = 0
    /\ running = NotRunning
    /\ users = (1 :> User(1, TRoot, hashPassword(TRoot), ROOT, TRUE))
    /\ usernameIndex = [n \in {TRoot} |-> 1]
    /\ maxUserId = 1
    /\ currentUserId = NoUser

NoInput == [id |-> 0, key |-> "", vt |-> "", value |-> Void]

\* a query payload whose logic is absent or null
NoLogic == [kind |-> "null"]

\* ------------------------------------------------------------------------
\* Operations
\* ------------------------------------------------------------------------

\* SecScoreDB::initStudentSchema
InitStudentSchema(s) ==
    /\ schema' = s
    /\ res' = [op |-> "initStudentSchema", in |-> NoInput, out |-> Ok(Void, <<>>)]
    /\ UNCHANGED <<stu, logic, aux>>

\* db.getStudent(id)[key] = value, with value of the C++ type vt
Set(id, key, vt, value) ==
    /\ id \in DOMAIN stu
    /\ LET r == WrapperSet(stu[id].metadata, schema, key, vt, value)
       IN /\ stu' = [stu EXCEPT ![id].metadata = r.meta]
          /\ res' = [op |-> "set",
                     in |-> [id |-> id, key |-> key, vt |-> vt, value |-> value],
                     out |-> r.out]
    /\ UNCHANGED <<schema, logic, aux>>

\* static_cast<V>(db.getStudent(id)[key]), with V the C++ type vt
Get(id, key, vt) ==
    /\ id \in DOMAIN stu
    /\ res' = [op |-> "get",
               in |-> [id |-> id, key |-> key, vt |-> vt, value |-> Void],
               out |-> WrapperGet(stu[id].metadata, schema, key, vt)]
    /\ UNCHANGED <<schema, stu, logic, aux>>

\* mutant: the evaluation consumes the stored texts it has decoded
Evaluate_Consuming(id) ==
    /\ id \in DOMAIN stu
    /\ logic.kind # "null"
    /\ LET data == materializeEntityData(stu[id].metadata, schema)
       IN /\ res' = [op |-> "evaluate",
                     in |-> [id |-> id, node |-> logic, data |-> data],
                     out |-> evaluateLogicNode(data, logic, schema)]
          /\ stu' = [stu EXCEPT ![id].metadata =
                         [f \in DOMAIN stu[id].metadata \ DOMAIN data |-> stu[id].metadata[f]]]
    /\ UNCHANGED <<schema, logic, aux>>

\* handleQuery on one entity: its snapshot, and the request's predicate
\* tree evaluated on it
Evaluate(id) ==
    /\ id \in DOMAIN stu
    /\ logic.kind # "null"
    /\ LET data == materializeEntityData(stu[id].metadata, schema)
       IN res' = [op |-> "evaluate",
                  in |-> [id |-> id, node |-> logic, data |-> data],
                  out |-> evaluateLogicNode(data, logic, schema)]
    /\ UNCHANGED <<schema, stu, logic, aux>>

\* ------------------------------------------------------------------------
\* Spec: two students, two fields, schema replaced at will, few values
\* ------------------------------------------------------------------------

LoadTexts == {TAbc}

\* the values a caller assigns, each with the C++ type it has
SetArgs ==
    {[vt |-> "int", value |-> IntVal(20)],
     [vt |-> "double", value |-> DoubleVal(NormDec(855, -1))],
     [vt |-> "string", value |-> StringVal(TAbc)],
     [vt |-> "chararray", value |-> StringVal(TAbc)]}

GetTypes == {"short", "int", "double", "string"}

Schemas ==
    {<<>>,
     [f \in {"name", "age"} |-> IF f = "name" THEN "String" ELSE "Int"],
     [f \in {"name", "age"} |-> IF f = "name" THEN "String" ELSE "Double"],
     [f \in {"age"} |-> "String"]}

Init ==
    /\ schema \in Schemas
    /\ stu \in [StudentIds -> {Student(<<>>, b) : b \in BagsOver(LoadTexts)}]
    /\ logic = NoLogic
    /\ res = [op |-> "init", in |-> NoInput, out |-> Ok(Void, <<>>)]
    /\ AuxInit

Next ==
    \/ \E s \in Schemas : InitStudentSchema(s)
    \/ \E id \in StudentIds, key \in Names, a \in SetArgs : Set(id, key, a.vt, a.value)
    \/ \E id \in StudentIds, key \in Names, vt \in GetTypes : Get(id, key, vt)

Spec == Init /\ [][Next]_vars

\* ------------------------------------------------------------------------
\* SpecParse: one field of one student, holding any of a wide set of texts
\* (as loaded from students.bin), read with every type.
\* SpecCodec: the same field, empty at first, written and read with every
\* type, so that every text it holds was written by a set.
\* ------------------------------------------------------------------------

TMinus5 == <<"-", "5">>
T0 == <<"0">>
T40000 == <<"4", "0", "0", "0", "0">>
T32767 == <<"3", "2", "7", "6", "7">>
T32768 == <<"3", "2", "7", "6", "8">>
TMinus32768 == <<"-", "3", "2", "7", "6", "8">>
TMinus32769 == <<"-", "3", "2", "7", "6", "9">>
TIntMax == <<"2", "1", "4", "7", "4", "8", "3", "6", "4", "7">>
TIntMaxPlus1 == <<"2", "1", "4", "7", "4", "8", "3", "6", "4", "8">>
TIntMin == <<"-", "2", "1", "4", "7", "4", "8", "3", "6", "4", "8">>
TIntMinMinus1 == <<"-", "2", "1", "4", "7", "4", "8", "3", "6", "4", "9">>
TSpace7 == <<" ", "7">>
TPlus7 == <<"+", "7">>
T7Space == <<"7", " ">>
TMinus == <<"-">>
TDot == <<".">>
T85p5 == <<"8", "5", ".", "5">>
T85p5abc == <<"8", "5", ".", "5", "a", "b", "c">>
T1e999 == <<"1", "e", "9", "9", "9">>
T1p5e1 == <<"1", ".", "5", "e", "1">>
T1p5e == <<"1", ".", "5", "e">>
T1e999abc == <<"1", "e", "9", "9", "9", "a", "b", "c">>
T99999abc == <<"9", "9", "9", "9", "9", "a", "b", "c">>

\* texts with at most nine digits
ParseTexts ==
    {TEmpty, TAbc, T123abc, T20, TAlice, TMinus5, T0, T40000, T32767, T32768,
     TMinus32768, TMinus32769, TSpace7, TPlus7, T7Space, TMinus, TDot, T85p5,
     T85p5abc, T1e999, T1p5e1, T1p5e, T1e999abc, T99999abc}

\* texts around the limits of int: ten digits, which the decimal arithmetic
\* of the model's doubles cannot hold, so they stay out of Double fields
LimitTexts == {TIntMax, TIntMaxPlus1, TIntMin, TIntMinMinus1}

CodecSetArgs ==
    {[vt |-> "short", value |-> IntVal(n)] : n \in {SHRT_MIN, -5, 0, 20, SHRT_MAX}}
    \cup {[vt |-> "int", value |-> IntVal(n)] : n \in {INT_MIN, -40000, 0, 20, 40000, INT_MAX}}
    \cup {[vt |-> "double", value |-> DoubleVal(x)] :
            x \in {NormDec(855, -1), NormDec(75, 0), NormDec(0, 0), NormDec(-5, -2), NormDec(1, 5)}}
    \cup {[vt |-> "string", value |-> StringVal(s)] : s \in {TEmpty, TAlice, T123abc, TSpace7}}
    \cup {[vt |-> "chararray", value |-> StringVal(TAlice)]}

CodecSchemas == {[f \in {"age"} |-> ty] : ty \in {"Int", "Double", "String"}}

InitParse ==
    /\ schema \in CodecSchemas
    /\ \E b \in {<<>>} \cup {[f \in {"age"} |-> t] :
                     t \in ParseTexts \cup (IF schema["age"] = "Double" THEN {} ELSE LimitTexts)} :
          stu = [id \in StudentIds |-> Student(<<>>, IF id = 1 THEN b ELSE <<>>)]
    /\ logic = NoLogic
    /\ res = [op |-> "init", in |-> NoInput, out |-> Ok(Void, <<>>)]
    /\ AuxInit

NextParse == \E key \in Names, vt \in GetTypes : Get(1, key, vt)

SpecParse == InitParse /\ [][NextParse]_vars

InitCodec ==
    /\ schema \in CodecSchemas
    /\ stu = [id \in StudentIds |-> Student(<<>>, <<>>)]
    /\ logic = NoLogic
    /\ res = [op |-> "init", in |-> NoInput, out |-> Ok(Void, <<>>)]
    /\ AuxInit

NextCodec ==
    \/ \E key \in Names, a \in CodecSetArgs : Set(1, key, a.vt, a.value)
    \/ \E key \in Names, vt \in GetTypes : Get(1, key, vt)

SpecCodec == InitCodec /\ [][NextCodec]_vars

\* ------------------------------------------------------------------------
\* SpecEval: predicate trees evaluated on the snapshot of a student whose
\* property bag was loaded with any texts, under any schema
\* ------------------------------------------------------------------------

EvalTexts == {TEmpty, TAlice, T20, T123abc, T85p5, TSpace7}

OpContainsUpper == <<"C", "O", "N", "T", "A", "I", "N", "S">>
OpEndsWithMixed == <<"E", "n", "d", "s", "_", "W", "i", "t", "h">>
OpEqEq == <<"=", "=", "=">>
OpNeSql == <<"<", ">">>
OpAndLower == <<"a", "n", "d">>
OpXor == <<"X", "O", "R">>

LeafOps ==
    {OpEq, OpNe, OpGt, OpGe, OpLt, OpLe, OpContains, OpStartsWith, OpEndsWith,
     OpContainsUpper, OpEndsWithMixed, OpEqEq, OpNeSql, TEmpty}

Literals ==
    {IntVal(20), IntVal(0), DoubleVal(NormDec(855, -1)), StringVal(TLic), StringVal(TAlice),
     StringVal(T20), StringVal(TEmpty), BoolVal(TRUE), NullVal}

Leaf(field, op, val) == [kind |-> "leaf", field |-> field, op |-> op, hasVal |-> TRUE, val |-> val]

LeafNoVal(field, op) == [kind |-> "leaf", field |-> field, op |-> op, hasVal |-> FALSE, val |-> NullVal]

Comb(op, rules) == [kind |-> "comb", op |-> op, rules |-> rules]

Leaves ==
    {Leaf(f, op, v) : f \in Names, op \in LeafOps, v \in Literals}
    \cup {LeafNoVal(f, OpEq) : f \in Names}

MaxRules == 2

\* the leaves the combinators of the model are built from
RuleLeaves ==
    {Leaf("age", OpGe, IntVal(20)), Leaf("name", OpContains, StringVal(TLic)),
     Leaf("age", OpContains, IntVal(0))}

Combs ==
    {Comb(op, rs) : op \in {OpAnd, OpOr, OpAndLower, OpXor},
                    rs \in UNION {[1..n -> RuleLeaves] : n \in 0..MaxRules}}

\* "age" is declared with any type and holds any text; "name" is a Text
\* field holding "Alice"; either may be undeclared or not stored
EvalSchemas ==
    {s \in SchemasOver({"Int", "Double", "String"}) : "name" \in DOMAIN s => s["name"] = "String"}

EvalBags == {b \in BagsOver(EvalTexts) : "name" \in DOMAIN b => b["name"] = TAlice}

InitEval ==
    /\ schema \in EvalSchemas
    /\ \E b \in EvalBags :
          stu = [id \in StudentIds |-> Student(<<>>, IF id = 1 THEN b ELSE <<>>)]
    /\ logic \in Leaves \cup Combs
    /\ res = [op |-> "init", in |-> NoInput, out |-> Ok(Void, <<>>)]
    /\ AuxInit

NextEval == \E id \in StudentIds : Evaluate(id)

SpecEval == InitEval /\ [][NextEval]_vars

\* ------------------------------------------------------------------------
\* SpecTree: nested AND/OR trees evaluated on the snapshot of a student
\* whose age is 20, under a schema that may or may not declare "name"
\* ------------------------------------------------------------------------

MaxWidth == 3

\* age >= 20: true on the snapshot
LeafAgeGe == Leaf("age", OpGe, IntVal(20))

\* age < 20: false on the snapshot
LeafAgeLt == Leaf("age", OpLt, IntVal(20))

\* name == "Alice": an error when the schema does not declare name, false
\* when the bag has no name, true otherwise
LeafName == Leaf("name", OpEq, StringVal(TAlice))

TreeLeaves == {LeafAgeGe, LeafAgeLt, LeafName}

\* the children of a tree: a leaf, or an AND/OR of two leaves
TreeChildren ==
    TreeLeaves \cup {Comb(op, rs) : op \in {OpAnd, OpOr}, rs \in [1..2 -> TreeLeaves]}

Trees ==
    {Comb(op, rs) : op \in {OpAnd, OpOr},
                    rs \in UNION {[1..n -> TreeChildren] : n \in 0..MaxWidth}}

TreeSchemas ==
    {[f \in {"age"} |-> "Int"],
     [f \in {"name", "age"} |-> IF f = "name" THEN "String" ELSE "Int"]}

TreeBags ==
    {[f \in {"age"} |-> T20],
     [f \in {"name", "age"} |-> IF f = "name" THEN TAlice ELSE T20]}

InitTree ==
    /\ schema \in TreeSchemas
    /\ \E b \in TreeBags :
          stu = [id \in StudentIds |-> Student(<<>>, IF id = 1 THEN b ELSE <<>>)]
    /\ logic \in Trees
    /\ res = [op |-> "init", in |-> NoInput, out |-> Ok(Void, <<>>)]
    /\ AuxInit

NextTree == Evaluate(1)

SpecTree == InitTree /\ [][NextTree]_vars


\* ------------------------------------------------------------------------
\* SpecWs: one connection sending requests to the server.  The request of
\* a message is well formed (seq, category, action and an object payload),
\* and category and action are spelled in lower case.
\* ------------------------------------------------------------------------

\* the db and the request context the handlers of this connection work on
Db ==
    [stu_schema |-> schema, grp_schema |-> grp_schema, stu |-> stu, grp |-> grp,
     evt |-> evt, maxId |-> maxId, disk |-> disk, users |-> users,
     usernameIndex |-> usernameIndex, maxUserId |-> maxUserId,
     currentUserId |-> currentUserId, log |-> <<>>]

Ctx == [db |-> Db, session |-> session]

MaxIds == 2

MaxEvents == 1

Request(category, action, payload) ==
    [category |-> category, action |-> action, payload |-> payload]

\* the message callback of a connection: dispatch, then the response
Answered(req, out, db, sess) ==
    /\ db.maxId.student <= MaxIds
    /\ db.maxId.group <= MaxIds
    /\ db.maxId.event <= MaxEvents
    /\ schema' = db.stu_schema
    /\ grp_schema' = db.grp_schema
    /\ stu' = db.stu
    /\ grp' = db.grp
    /\ evt' = db.evt
    /\ maxId' = db.maxId
    /\ disk' = db.disk
    /\ session' = sess
    /\ users' = db.users
    /\ usernameIndex' = db.usernameIndex
    /\ maxUserId' = db.maxUserId
    /\ currentUserId' = db.currentUserId
    /\ res' = [op |-> "request", in |-> req, out |-> out,
               response |-> Response(out), log |-> db.log]
    /\ UNCHANGED <<logic, peer, mutex, running>>

Sent(req, a) == Answered(req, a.out, a.ctx.db, a.ctx.session)

OnMessage(req, order) ==
    Sent(req, dispatch(req.category, req.action, req.payload, Ctx, order))

\* the server stopped and started again on the same directory: the
\* destructor commits, the constructor loads the three maps and computes
\* the id counters; the schemas and the session are gone
Restart ==
    /\ schema' = <<>>
    /\ grp_schema' = <<>>
    /\ disk' = Saved(disk, stu, grp, evt)
    /\ stu' = LoadAll(disk'.stu, loadStudent)
    /\ grp' = LoadAll(disk'.grp, loadGroup)
    /\ evt' = LoadAll(disk'.evt, loadEvent)
    /\ maxId' = [student |-> MaxKey(stu'), group |-> MaxKey(grp'), event |-> MaxKey(evt')]
    /\ session' = NoSession
    /\ peer' = NoSession
    /\ UNCHANGED <<mutex, running>>
    /\ res' = [op |-> "restart", in |-> NoInput, out |-> Ok(Void, <<>>)]
    /\ UNCHANGED <<logic, users, usernameIndex, maxUserId, currentUserId>>

Absent == [some |-> FALSE, val |-> NullVal]

Members(age, name) == Object([f \in {"age", "name"} |-> IF f = "age" THEN age ELSE name])

AgeOnly(age) == Object([f \in {"age"} |-> age])

Item(index, id, data) ==
    [index |-> IntVal(index), hasData |-> TRUE, data |-> data, hasId |-> id.some,
     id |-> id.val]

\* an item without id, one with an id, one whose second member has the
\* wrong type, one without data
ItemAuto == Item(0, Absent, AgeOnly(IntVal(20)))
ItemOne == Item(1, Some(IntVal(1)), Members(IntVal(20), StringVal(TBob)))
ItemBad == Item(2, Some(NullVal), Members(IntVal(20), IntVal(5)))
ItemNoData ==
    [index |-> IntVal(3), hasData |-> FALSE, data |-> NotObject, hasId |-> FALSE,
     id |-> NullVal]
ItemEmpty == Item(0, Absent, Object(<<>>))

\* an item whose id is a string, one whose data names a field no schema
\* of the requests declares, one whose index is a string
ItemIdText == Item(4, Some(StringVal(TAbc)), AgeOnly(IntVal(20)))
ItemScore == Item(5, Some(IntVal(2)), Object([f \in {"score"} |-> IntVal(1)]))
ItemIndexText == [ItemAuto EXCEPT !.index = StringVal(TAbc)]

Items(items) == [hasItems |-> TRUE, items |-> items]

CreatePayloads ==
    {Items(<<ItemAuto>>), Items(<<ItemOne>>), Items(<<ItemBad, ItemAuto>>),
     Items(<<ItemNoData, ItemIdText, ItemScore, ItemOne>>),
     Items(<<ItemAuto, ItemIndexText>>), [hasItems |-> FALSE, items |-> <<>>]}

Query(limit, lg) ==
    [hasLimit |-> limit.some, limit |-> limit.val, hasLogic |-> lg.kind # "absent", logic |-> lg]

NoLogicMember == [kind |-> "absent"]

\* age >= 21: true of a student whose age an update request has set
LeafAgeGe21 == Leaf("age", OpGe, IntVal(21))

QueryPayloads ==
    {Query(Absent, NoLogicMember), Query(Absent, LeafAgeGe),
     Query(Some(IntVal(1)), NoLogic), Query(Some(IntVal(-1)), NoLogicMember),
     Query(Absent, LeafAgeGe21), Query(Some(IntVal(0)), LeafAgeGe21),
     Query(Some(IntVal(1)), LeafAgeGe)}

Update(id, set) ==
    [hasId |-> id.some, id |-> id.val, hasSet |-> set.kind # "absent", set |-> set]

UpdatePayloads ==
    {Update(Some(IntVal(1)), AgeOnly(IntVal(21))),
     Update(Some(IntVal(1)), Members(IntVal(21), IntVal(5))),
     Update(Some(IntVal(2)), NotObject),
     Update(Absent, AgeOnly(IntVal(21)))}

DeletePayloads == {Update(Some(IntVal(1)), NoLogicMember)}

StudentRequests ==
    {Request("student", "create", p) : p \in CreatePayloads}
    \cup {Request("student", "update", p) : p \in UpdatePayloads}
    \cup {Request("student", "delete", p) : p \in DeletePayloads}

GroupRequests ==
    {Request("group", "create", Items(<<ItemEmpty>>)),
     Request("group", "update", Update(Some(IntVal(1)), Object(<<>>))),
     Request("group", "delete", Update(Some(IntVal(2)), NoLogicMember))}

QueryRequests ==
    {Request("student", "query", p) : p \in QueryPayloads}
    \cup {Request("group", "query", Query(Absent, NoLogicMember))}

Define(target, sch) == [target |-> target, schema |-> sch]

SchemaJson(age, name) ==
    Object([f \in {"age", "name"} |-> StringVal(IF f = "age" THEN age ELSE name)])

SystemRequests ==
    {Request("system", "commit", Object(<<>>)),
     Request("system", "define", Define(Some(StringVal(TStudent)), Some(SchemaJson(TInt, TString)))),
     Request("system", "define", Define(Some(StringVal(TGroupUpper)), Some(AgeOnly(StringVal(TIntUpper))))),
     Request("system", "define", Define(Some(StringVal(TStudent)), Some(SchemaJson(TInt, TBool)))),
     Request("system", "define", Define(Some(StringVal(TStudent)), Some(Object(<<>>)))),
     Request("system", "define", Define(Some(StringVal(TTeacher)), Some(SchemaJson(TInt, TString))))}

EventCreate(id, type, prev, curr) ==
    [id |-> id, type |-> type, ref_id |-> Some(IntVal(1)), desc |-> Some(StringVal(TAbc)),
     val_prev |-> prev, val_curr |-> curr, erased |-> Absent]

EventUpdate(id, erased) ==
    [id |-> id, type |-> Absent, ref_id |-> Absent, desc |-> Absent,
     val_prev |-> Absent, val_curr |-> Absent, erased |-> erased]

EventRequests ==
    {Request("event", "create",
             EventCreate(Some(NullVal), Some(IntVal(1)), Some(IntVal(80)),
                         Some(DoubleVal(NormDec(855, -1))))),
     Request("event", "create",
             EventCreate(Some(IntVal(1)), Some(IntVal(1)), Some(IntVal(80)), Some(IntVal(85)))),
     Request("event", "create",
             EventCreate(Some(NullVal), Some(IntVal(3)), Some(IntVal(80)), Some(IntVal(85)))),
     Request("event", "update", EventUpdate(Some(IntVal(1)), Some(BoolVal(TRUE))))}

Credentials(username, password) == [username |-> username, password |-> password]

UserRequests ==
    {Request("user", "login", Credentials(Some(StringVal(TRoot)), Some(StringVal(TRoot)))),
     Request("user", "login", Credentials(Some(StringVal(TRoot)), Some(StringVal(TAbc)))),
     Request("user", "logout", Object(<<>>)),
     Request("user", "current", Object(<<>>)),
     Request("user", "list", Object(<<>>))}

OtherRequests == {Request("teacher", "create", Object(<<>>))}

\* the orders in which a map with the keys ks can be iterated
Orders(ks) ==
    {o \in [1..Cardinality(ks) -> ks] : \A i, j \in 1..Cardinality(ks) : o[i] = o[j] => i = j}

InitWs ==
    /\ schema = <<>>
    /\ stu = <<>>
    /\ logic = NoLogic
    /\ res = [op |-> "init", in |-> NoInput, out |-> Ok(Void, <<>>)]
    /\ AuxInit

NextWs ==
    \/ \E r \in SystemRequests : OnMessage(r, <<>>)
    \/ \E r \in StudentRequests : OnMessage(r, <<>>)
    \/ \E r \in GroupRequests : OnMessage(r, <<>>)
    \/ \E r \in QueryRequests :
          \E o \in Orders(DOMAIN EntitiesOf(r.category, Db)) : OnMessage(r, o)
    \/ \E r \in EventRequests : OnMessage(r, <<>>)
    \/ \E r \in UserRequests \cup OtherRequests : OnMessage(r, <<>>)
    \/ Restart

SpecWs == InitWs /\ [][NextWs]_vars

\* ------------------------------------------------------------------------
\* SpecUser: the permission-checked operations of one UserManager, called
\* in any order with two user names, two passwords and three permissions,
\* starting from the default root account.
\* ------------------------------------------------------------------------

Um ==
    [users |-> users, usernameIndex |-> usernameIndex,
     maxUserId |-> maxUserId, currentUserId |-> currentUserId]

MaxUsers == 3

UserNames == {TRoot, TBob}

Passwords == {TRoot, TAbc}

WRITE_DELETE == 6

UserPerms == {READ, WRITE_DELETE, ROOT}

UserIds == 1..MaxUsers

\* the call op(in) made on the manager, with outcome out and manager um
Called_Um(op, in, out, um) ==
    /\ um.maxUserId <= MaxUsers
    /\ users' = um.users
    /\ usernameIndex' = um.usernameIndex
    /\ maxUserId' = um.maxUserId
    /\ currentUserId' = um.currentUserId
    /\ res' = [op |-> op, in |-> in, out |-> out]
    /\ UNCHANGED <<schema, stu, logic, grp_schema, grp, evt, maxId, disk, session, peer, mutex, running>>

UmCall(op, in, r) == Called_Um(op, in, r.out, r.um)

UserArgs(username, password, userId, perm, active) ==
    [username |-> username, password |-> password, userId |-> userId,
     perm |-> perm, active |-> active, old |-> <<>>]

Login(username, password) ==
    UmCall("login", UserArgs(username, password, 0, NONE, FALSE),
           login(Um, username, password))

Logout == UmCall("logout", UserArgs(<<>>, <<>>, 0, NONE, FALSE), logout(Um))

CheckPermission(p) ==
    Called_Um("checkPermission", UserArgs(<<>>, <<>>, 0, p, FALSE),
              Returned(BoolVal(checkPermission(Um, p))), Um)

RequirePermission(p) ==
    Called_Um("requirePermission", UserArgs(<<>>, <<>>, 0, p, FALSE),
              requirePermission(Um, p), Um)

CreateUser(username, password, perm) ==
    UmCall("createUser", UserArgs(username, password, 0, perm, FALSE),
           createUser(Um, username, password, perm))

DeleteUser(userId) ==
    UmCall("deleteUser", UserArgs(<<>>, <<>>, userId, NONE, FALSE), deleteUser(Um, userId))

DeleteUserByName(username) ==
    UmCall("deleteUser", UserArgs(username, <<>>, 0, NONE, FALSE),
           deleteUserByName(Um, username))

SetUserPermission(userId, perm) ==
    UmCall("setUserPermission", UserArgs(<<>>, <<>>, userId, perm, FALSE),
           setUserPermission(Um, userId, perm))

SetUserActive(userId, active) ==
    UmCall("setUserActive", UserArgs(<<>>, <<>>, userId, NONE, active),
           setUserActive(Um, userId, active))

ChangePassword(userId, newPassword, oldPassword) ==
    UmCall("changePassword",
           [UserArgs(<<>>, newPassword, userId, NONE, FALSE) EXCEPT !.old = oldPassword],
           changePassword(Um, userId, newPassword, oldPassword))

NextUser ==
    \/ \E n \in UserNames, p \in Passwords : Login(n, p)
    \/ Logout
    \/ \E p \in Permissions : CheckPermission(p)
    \/ \E p \in Permissions : RequirePermission(p)
    \/ \E n \in UserNames, perm \in UserPerms : CreateUser(n, TAbc, perm)
    \/ \E id \in UserIds : DeleteUser(id)
    \/ \E n \in UserNames : DeleteUserByName(n)
    \/ \E id \in UserIds, perm \in UserPerms : SetUserPermission(id, perm)
    \/ \E id \in UserIds, a \in BOOLEAN : SetUserActive(id, a)
    \/ \E id \in UserIds, new \in Passwords, old \in Passwords :
          ChangePassword(id, new, old)

SpecUser == InitWs /\ [][NextUser]_vars

\* ------------------------------------------------------------------------
\* SpecDb: the store called directly.  Students and groups are created,
\* added, fetched and deleted by id, in any order, with ids that are free
\* and ids that are taken.
\* ------------------------------------------------------------------------

EntityIds == 1..MaxIds

\* the students and groups a caller builds before adding them
StudentsToAdd == {Student(<<>>, <<>>), Student(<<1>>, [k \in {"name"} |-> TBob])}

GroupsToAdd == {Group(<<>>, <<>>), Group(<<1>>, [k \in {"name"} |-> TAbc])}

\* the call op(id, entity) made on the store, with outcome r
DbCalled(op, id, entity, r) ==
    /\ stu' = r.db.stu
    /\ grp' = r.db.grp
    /\ maxId' = r.db.maxId
    /\ res' = [op |-> op, in |-> [id |-> id, entity |-> entity],
               out |-> [ok |-> r.ok]]
    /\ UNCHANGED <<schema, logic, grp_schema, evt, disk, session, peer, mutex, running,
                   users, usernameIndex, maxUserId, currentUserId>>

CreateStudent(id) == DbCalled("createStudent", id, Student(<<>>, <<>>), createStudent(Db, id))

AddStudent(id, s) == DbCalled("addStudent", id, s, addStudent(Db, id, s))

GetStudent(id) == DbCalled("getStudent", id, Student(<<>>, <<>>), getStudent(Db, id))

DeleteStudent(id) == DbCalled("deleteStudent", id, Student(<<>>, <<>>), deleteStudent(Db, id))

CreateGroup(id) == DbCalled("createGroup", id, Group(<<>>, <<>>), createGroup(Db, id))

AddGroup(id, g) == DbCalled("addGroup", id, g, addGroup(Db, id, g))

GetGroup(id) == DbCalled("getGroup", id, Group(<<>>, <<>>), getGroup(Db, id))

DeleteGroup(id) == DbCalled("deleteGroup", id, Group(<<>>, <<>>), deleteGroup(Db, id))

NextDb ==
    \/ \E id \in EntityIds : CreateStudent(id)
    \/ \E id \in EntityIds, s \in StudentsToAdd : AddStudent(id, s)
    \/ \E id \in EntityIds : GetStudent(id)
    \/ \E id \in EntityIds : DeleteStudent(id)
    \/ \E id \in EntityIds : CreateGroup(id)
    \/ \E id \in EntityIds, g \in GroupsToAdd : AddGroup(id, g)
    \/ \E id \in EntityIds : GetGroup(id)
    \/ \E id \in EntityIds : DeleteGroup(id)

SpecDb == InitWs /\ [][NextDb]_vars

\* ------------------------------------------------------------------------
\* SpecEvents: events added to the store directly, with ids assigned by
\* the store and ids supplied by the caller, on a store that may have
\* loaded an event; events are marked erased by id, and the store is
\* closed and opened again.
\* ------------------------------------------------------------------------

MaxEventId == 4

\* the ids a caller puts on an event
SuppliedIds == {INVALID_ID, 1, 3}

\* the events a caller builds: on student 1, with one of two reasons
EventsToAdd ==
    {Event(id, EventTypeStudent, 1, reason, 1, 10) :
        id \in SuppliedIds, reason \in {TAbc, TBob}}

\* what events.bin holds when the store is opened
LoadedEvents == {<<>>, (2 :> Event(2, EventTypeGroup, 1, TAlice, 1, 5))}

InitEvents ==
    /\ schema = <<>>
    /\ stu = <<>>
    /\ logic = NoLogic
    /\ res = [op |-> "init", in |-> [id |-> 0, e |-> Event(0, 0, 0, <<>>, 0, 0)],
              out |-> [ok |-> TRUE, id |-> 0]]
    /\ grp_schema = <<>>
    /\ grp = <<>>
    /\ evt \in LoadedEvents
    /\ maxId = [student |-> 0, group |-> 0, event |-> MaxKey(evt)]
    /\ disk = [stu |-> <<>>, grp |-> <<>>, evt |-> SaveAll(evt, saveEvent), users |-> <<>>]
    /\ session = NoSession
    /\ peer = NoSession
    /\ mutex = 0
    /\ running = NotRunning
    /\ users = (1 :> User(1, TRoot, hashPassword(TRoot), ROOT, TRUE))
    /\ usernameIndex = [n \in {TRoot} |-> 1]
    /\ maxUserId = 1
    /\ currentUserId = NoUser

\* the call op on the events of the store, with outcome ok and id
EventCalled(op, id, e, ok, ret, db) ==
    /\ db.maxId.event <= MaxEventId
    /\ evt' = db.evt
    /\ maxId' = db.maxId
    /\ res' = [op |-> op, in |-> [id |-> id, e |-> e], out |-> [ok |-> ok, id |-> ret]]
    /\ UNCHANGED <<schema, stu, logic, grp_schema, grp, disk, session, peer, mutex, running,
                   users, usernameIndex, maxUserId, currentUserId>>

EventAddedBy(e, r) == EventCalled("addEvent", e.id, e, r.ok, r.id, r.db)

AddEvent(e) == EventAddedBy(e, addEvent(Db, e))

EventErasedBy(id, r) ==
    EventCalled("setEventErased", id, Event(0, 0, 0, <<>>, 0, 0), r.ok, 0, r.db)

SetEventErased(id, isErased) == EventErasedBy(id, setEventErased(Db, id, isErased))

\* ~SecScoreDB and SecScoreDB::SecScoreDB on the same directory
Reopen ==
    /\ disk' = Saved(disk, stu, grp, evt)
    /\ evt' = LoadAll(disk'.evt, loadEvent)
    /\ maxId' = [maxId EXCEPT !.event = MaxKey(evt')]
    /\ res' = [op |-> "reopen", in |-> [id |-> 0, e |-> Event(0, 0, 0, <<>>, 0, 0)],
               out |-> [ok |-> TRUE, id |-> 0]]
    /\ UNCHANGED <<schema, stu, logic, grp_schema, grp, session, peer, mutex, running,
                   users, usernameIndex, maxUserId, currentUserId>>

NextEvents ==
    \/ \E e \in EventsToAdd : AddEvent(e)
    \/ \E id \in 1..MaxEventId, b \in BOOLEAN : SetEventErased(id, b)
    \/ Reopen

SpecEvents == InitEvents /\ [][NextEvents]_vars

\* ------------------------------------------------------------------------
\* SpecScan: students are fetched and deleted by predicate.  The store
\* holds students whose fields are unset, hold a number or hold a text
\* that is no number, under a schema that declares the fields read, gives
\* one of them another type, or declares nothing.
\* ------------------------------------------------------------------------

ScanTexts == {T20, TBob}

ScanSchemas ==
    {<<>>,
     [f \in {"name", "age"} |-> IF f = "name" THEN "String" ELSE "Int"],
     [f \in {"name", "age"} |-> "String"]}

Predicates == {PredAgeAtLeast(20), PredNameIs(TBob), PredScoreAtLeast(0)}

NoPredicate == [key |-> "", vt |-> "", lit |-> Void]

InitScan ==
    /\ schema \in ScanSchemas
    /\ stu \in [EntityIds -> {Student(<<>>, b) : b \in BagsOver(ScanTexts)}]
    /\ logic = NoLogic
    /\ res = [op |-> "init", in |-> NoPredicate, order |-> <<>>,
              out |-> [ids |-> <<>>, count |-> 0]]
    /\ AuxInit

\* db.getStudent(pred), the map being iterated in the order given
GetStudentWhere(p, order) ==
    /\ res' = [op |-> "getStudent", in |-> p, order |-> order,
               out |-> [ids |-> getStudentWhere(stu, schema, p, order, 1, <<>>),
                        count |-> 0]]
    /\ UNCHANGED <<schema, stu, logic, aux>>

ErasedWhere(p, order, d) ==
    /\ stu' = d.stu
    /\ res' = [op |-> "deleteStudent", in |-> p, order |-> order,
               out |-> [ids |-> <<>>, count |-> d.count]]
    /\ UNCHANGED <<schema, logic, aux>>

\* db.deleteStudent(pred)
DeleteStudentWhere(p, order) ==
    ErasedWhere(p, order, deleteStudentWhere(stu, schema, p, order, 1, <<>>))

NextScan ==
    \/ \E p \in Predicates, o \in Orders(DOMAIN stu) : GetStudentWhere(p, o)
    \/ \E p \in Predicates, o \in Orders(DOMAIN stu) : DeleteStudentWhere(p, o)

SpecScan == InitScan /\ [][NextScan]_vars

\* ------------------------------------------------------------------------
\* SpecStore: one database directory.  A store and its user manager work
\* on it: a student, a group, an event and a user are added, changed and
\* removed in memory; commit writes the files; the store is closed and
\* opened again, or a new store is opened on the directory as it is.
\* ------------------------------------------------------------------------

\* SecScoreDB::commit
Commit ==
    /\ disk' = Saved(disk, stu, grp, evt)
    /\ res' = [op |-> "commit"]
    /\ UNCHANGED <<schema, stu, logic, grp_schema, grp, evt, maxId, session, peer, mutex, running,
                   users, usernameIndex, maxUserId, currentUserId>>

\* UserManager::commit
UserCommit ==
    /\ disk' = [disk EXCEPT !.users = SaveAll(users, serializeUser)]
    /\ res' = [op |-> "UserManager::commit"]
    /\ UNCHANGED <<schema, stu, logic, grp_schema, grp, evt, maxId, session, peer, mutex, running,
                   users, usernameIndex, maxUserId, currentUserId>>

\* SecScoreDB::SecScoreDB and UserManager::UserManager on the files
Loaded(op, files, um) ==
    /\ disk' = files
    /\ stu' = LoadAll(files.stu, loadStudent)
    /\ grp' = LoadAll(files.grp, loadGroup)
    /\ evt' = LoadAll(files.evt, loadEvent)
    /\ maxId' = [student |-> Max(0, MaxKey(stu')), group |-> Max(0, MaxKey(grp')),
                 event |-> Max(0, MaxKey(evt'))]
    /\ users' = um.users
    /\ usernameIndex' = um.usernameIndex
    /\ maxUserId' = um.maxUserId
    /\ currentUserId' = um.currentUserId
    /\ schema' = <<>>
    /\ grp_schema' = <<>>
    /\ res' = [op |-> op]
    /\ UNCHANGED <<logic, session, peer, mutex, running>>

Opened(op, files) == Loaded(op, files, UserManagerOpen(files.users))

\* a new store is opened on the directory as the last commits left it
Open == Opened("open", disk)

\* the store is closed, both destructors committing, and opened again
CloseAndOpen ==
    Opened("reopen", [Saved(disk, stu, grp, evt) EXCEPT
                         !.users = SaveAll(users, serializeUser)])

\* the one event the store is given
StoreEvent == Event(INVALID_ID, EventTypeStudent, 1, TAbc, 1, 10)

NextStore ==
    \/ \E s \in StudentsToAdd : AddStudent(1, s)
    \/ DeleteStudent(1)
    \/ \E g \in GroupsToAdd : AddGroup(1, g)
    \/ maxId.event < MaxEvents /\ AddEvent(StoreEvent)
    \/ \E b \in BOOLEAN : SetEventErased(1, b)
    \/ Login(TRoot, TRoot)
    \/ CreateUser(TBob, TAbc, READ)
    \/ \E a \in BOOLEAN : SetUserActive(2, a)
    \/ SetUserPermission(2, WRITE_DELETE)
    \/ Commit
    \/ UserCommit
    \/ Open
    \/ CloseAndOpen

SpecStore == InitWs /\ [][NextStore]_vars

\* ------------------------------------------------------------------------
\* SpecMember: the membership lists of student 1 and group 1, built with
\* AddGroup, AddStudent, SetGroups and SetStudents and taken apart with
\* RemoveGroup and RemoveStudent.
\* ------------------------------------------------------------------------

MaxMembers == 3

MemberIds == {1, 2}

\* the lists a caller hands to SetGroups and SetStudents
MemberLists == UNION {[1..n -> MemberIds] : n \in 0..2}

InitMember ==
    /\ schema = <<>>
    /\ stu = (1 :> Student(<<>>, <<>>))
    /\ logic = NoLogic
    /\ res = [op |-> "init", in |-> [id |-> 0, list |-> <<>>], out |-> [ok |-> TRUE]]
    /\ grp_schema = <<>>
    /\ grp = (1 :> Group(<<>>, <<>>))
    /\ evt = <<>>
    /\ maxId = [student |-> 1, group |-> 1, event |-> 0]
    /\ disk = [stu |-> <<>>, grp |-> <<>>, evt |-> <<>>, users |-> <<>>]
    /\ session = NoSession
    /\ peer = NoSession
    /\ mutex = 0
    /\ running = NotRunning
    /\ users = (1 :> User(1, TRoot, hashPassword(TRoot), ROOT, TRUE))
    /\ usernameIndex = [n \in {TRoot} |-> 1]
    /\ maxUserId = 1
    /\ currentUserId = NoUser

\* a call on student 1 that leaves the list groups behind
OnStudent(op, id, list, ok, groups) ==
    /\ Len(groups) <= MaxMembers
    /\ stu' = [stu EXCEPT ![1].groups = groups]
    /\ res' = [op |-> op, in |-> [id |-> id, list |-> list], out |-> [ok |-> ok]]
    /\ UNCHANGED <<schema, logic, aux>>

\* a call on group 1 that leaves the list students behind
OnGroup(op, id, list, ok, students) ==
    /\ Len(students) <= MaxMembers
    /\ grp' = [grp EXCEPT ![1].students = students]
    /\ res' = [op |-> op, in |-> [id |-> id, list |-> list], out |-> [ok |-> ok]]
    /\ UNCHANGED <<schema, stu, logic, grp_schema, evt, maxId, disk, session, peer, mutex, running,
                   users, usernameIndex, maxUserId, currentUserId>>

StudentAddGroup(g) == OnStudent("AddGroup", g, <<>>, TRUE, AddMember(stu[1].groups, g))

StudentSetGroups(list) == OnStudent("SetGroups", 0, list, TRUE, list)

StudentRemoved(g, r) == OnStudent("RemoveGroup", g, <<>>, r.ok, r.list)

StudentRemoveGroup(g) == StudentRemoved(g, RemoveMember(stu[1].groups, g))

StudentBelongsToGroup(g) ==
    OnStudent("BelongsToGroup", g, <<>>, HasMember(stu[1].groups, g), stu[1].groups)

GroupAddStudent(s) == OnGroup("AddStudent", s, <<>>, TRUE, AddMember(grp[1].students, s))

GroupSetStudents(list) == OnGroup("SetStudents", 0, list, TRUE, list)

GroupRemoved(s, r) == OnGroup("RemoveStudent", s, <<>>, r.ok, r.list)

GroupRemoveStudent(s) == GroupRemoved(s, RemoveMember(grp[1].students, s))

GroupContainsStudent(s) ==
    OnGroup("ContainsStudent", s, <<>>, HasMember(grp[1].students, s), grp[1].students)

NextMember ==
    \/ \E g \in MemberIds : StudentAddGroup(g)
    \/ \E l \in MemberLists : StudentSetGroups(l)
    \/ \E g \in MemberIds : StudentRemoveGroup(g)
    \/ \E g \in MemberIds : StudentBelongsToGroup(g)
    \/ \E s \in MemberIds : GroupAddStudent(s)
    \/ \E l \in MemberLists : GroupSetStudents(l)
    \/ \E s \in MemberIds : GroupRemoveStudent(s)
    \/ \E s \in MemberIds : GroupContainsStudent(s)

SpecMember == InitMember /\ [][NextMember]_vars

\* ------------------------------------------------------------------------
\* SpecSession: two connections to one server send user requests in any
\* order.  Each connection has its own RequestContext, all share the db and
\* its user manager, which starts with the default root account.
\* ------------------------------------------------------------------------

Connections == {1, 2}

\* RequestContext::currentUserId of the connection c
SessionOf(c) == IF c = 1 THEN session ELSE peer

UserCreatePayload(username, password, permission) ==
    [username |-> username, password |-> password, permission |-> permission]

UserDeletePayload(id, username) == [id |-> id, username |-> username]

UserUpdatePayload(id, permission, new_password, old_password, active) ==
    [id |-> id, permission |-> permission, new_password |-> new_password,
     old_password |-> old_password, active |-> active]

\* logins with the right and a wrong password, as a user to be created and
\* without a user name; the administration of that user: its creation and
\* deletion, updates of its permission, its active flag and its password
\* with the right and a wrong old password, of the password of the root
\* user, of a user that may not exist, and with an id that is no number;
\* the root user disabled
SessionRequests ==
    {Request("user", "login", Credentials(Some(StringVal(TRoot)), Some(StringVal(TRoot)))),
     Request("user", "login", Credentials(Some(StringVal(TRoot)), Some(StringVal(TAbc)))),
     Request("user", "login", Credentials(Some(StringVal(TBob)), Some(StringVal(TAbc)))),
     Request("user", "login", Credentials(Absent, Some(StringVal(TRoot)))),
     Request("user", "logout", Object(<<>>)),
     Request("user", "current", Object(<<>>)),
     Request("user", "create",
             UserCreatePayload(Some(StringVal(TBob)), Some(StringVal(TAbc)), Absent)),
     Request("user", "delete", UserDeletePayload(Absent, Some(StringVal(TBob)))),
     Request("user", "update",
             UserUpdatePayload(Some(IntVal(2)), Absent, Absent, Absent, Some(BoolVal(FALSE)))),
     Request("user", "update",
             UserUpdatePayload(Some(IntVal(2)), Absent, Absent, Absent, Some(BoolVal(TRUE)))),
     Request("user", "update",
             UserUpdatePayload(Some(IntVal(2)), Some(StringVal(TRoot)), Absent, Absent, Absent)),
     Request("user", "update",
             UserUpdatePayload(Some(IntVal(2)), Absent, Some(StringVal(TRoot)),
                               Some(StringVal(TAbc)), Absent)),
     Request("user", "update",
             UserUpdatePayload(Some(IntVal(2)), Absent, Some(StringVal(TAbc)),
                               Some(StringVal(T20)), Absent)),
     Request("user", "update",
             UserUpdatePayload(Some(IntVal(1)), Absent, Some(StringVal(TAbc)), Absent, Absent)),
     Request("user", "update",
             UserUpdatePayload(Some(IntVal(2)), Absent, Some(StringVal(TRoot)),
                               Some(StringVal(TAbc)), Some(BoolVal(FALSE)))),
     Request("user", "update",
             UserUpdatePayload(Some(IntVal(3)), Absent, Absent, Absent, Some(BoolVal(TRUE)))),
     Request("user", "update",
             UserUpdatePayload(Some(StringVal(TAbc)), Absent, Absent, Absent, Absent)),
     Request("user", "update",
             UserUpdatePayload(Some(IntVal(1)), Absent, Absent, Absent, Some(BoolVal(FALSE)))),
     Request("user", "query", Object(<<>>))}

\* the message callback of the connection c sends the response; what the
\* handler did to the db and to the context of c stays
Served(c, req, a) ==
    /\ a.ctx.db.maxUserId <= MaxUsers
    /\ schema' = a.ctx.db.stu_schema
    /\ grp_schema' = a.ctx.db.grp_schema
    /\ stu' = a.ctx.db.stu
    /\ grp' = a.ctx.db.grp
    /\ evt' = a.ctx.db.evt
    /\ maxId' = a.ctx.db.maxId
    /\ disk' = a.ctx.db.disk
    /\ users' = a.ctx.db.users
    /\ usernameIndex' = a.ctx.db.usernameIndex
    /\ maxUserId' = a.ctx.db.maxUserId
    /\ currentUserId' = a.ctx.db.currentUserId
    /\ session' = IF c = 1 THEN a.ctx.session ELSE session
    /\ peer' = IF c = 2 THEN a.ctx.session ELSE peer
    /\ UNCHANGED <<mutex, running>>
    /\ res' = [op |-> "request", conn |-> c, in |-> req, out |-> a.out,
               response |-> Response(a.out), log |-> a.ctx.db.log]
    /\ UNCHANGED logic

\* a message arrives on the connection c
OnConnection(c, req) ==
    Served(c, req, dispatch(req.category, req.action, req.payload,
                            [db |-> Db, session |-> SessionOf(c)], <<>>))

NextSession ==
    \E c \in Connections, r \in SessionRequests : OnConnection(c, r)

SpecSession == InitWs /\ [][NextSession]_vars

\* ------------------------------------------------------------------------
\* SpecMessage: the message callback of a connection, from the frame the
\* library hands it to the responses it sends on the connection.
\* json::parse is the library's: a message text is given by what the
\* parser makes of it, a parse_error or a json value.
\* ------------------------------------------------------------------------

\* a member of the request that is to be a string: absent, a number, or
\* the string name
NoMember == [has |-> FALSE, string |-> FALSE, name |-> ""]
NumberMember == [has |-> TRUE, string |-> FALSE, name |-> ""]
TextMember(name) == [has |-> TRUE, string |-> TRUE, name |-> name]

\* the payload member: absent, an array, or an object
NoPayload == [has |-> FALSE, object |-> FALSE, val |-> Object(<<>>)]
ArrayPayload == [has |-> TRUE, object |-> FALSE, val |-> Object(<<>>)]
ObjectPayload(p) == [has |-> TRUE, object |-> TRUE, val |-> p]

RequestJson(seq, category, action, payload) ==
    [parsed |-> TRUE, seq |-> seq, category |-> category, action |-> action,
     payload |-> payload]

\* a text json::parse throws on
ParseError == [parsed |-> FALSE, seq |-> NoMember, category |-> NoMember,
               action |-> NoMember, payload |-> NoPayload]

\* a json value that is no object: it contains no member
NoObjectJson == RequestJson(NoMember, NoMember, NoMember, NoPayload)

Frame(type, body) == [type |-> type, body |-> body]

makeOkResponse(seq, data) ==
    [seq |-> seq, status |-> "ok", code |-> 200, message |-> "none"]

makeErrorResponse(seq, code, message) ==
    [seq |-> seq, status |-> "error", code |-> code, message |-> message]

\* the checks of the request before dispatch: the ApiError thrown, if any
RequestChecked(request) ==
    IF ~request.seq.has \/ ~request.seq.string THEN "SeqRequired"
    ELSE IF ~request.category.has \/ ~request.category.string THEN "CategoryRequired"
    ELSE IF ~request.action.has \/ ~request.action.string THEN "ActionRequired"
    ELSE IF ~request.payload.has THEN "PayloadRequired"
    ELSE IF ~request.payload.object THEN "PayloadNotObject"
    ELSE "none"

\* connection->send
Sending(c, response, out, ctx) ==
    [sent |-> <<[to |-> c, response |-> response]>>, out |-> out, ctx |-> ctx]

\* the end of the try block and the three catch clauses, seq being set
Dispatched(c, seq, a) ==
    IF a.out.ok THEN Sending(c, makeOkResponse(seq, a.out), a.out, a.ctx)
    ELSE Sending(c, makeErrorResponse(seq, IF a.out.code = 0 THEN 500 ELSE a.out.code,
                                      a.out.err),
                 a.out, a.ctx)

\* mutant: seq is taken from the request once all its members are checked
MessageCallback_SeqLate(c, msg, ctx) ==
    IF msg.type # "Message" THEN [sent |-> <<>>, out |-> OkData(Void), ctx |-> ctx]
    ELSE IF ~msg.body.parsed
    THEN Sending(c, makeErrorResponse("", 400, "json::parse_error"),
                 JsonException("json::parse_error"), ctx)
    ELSE IF RequestChecked(msg.body) # "none"
    THEN Sending(c, makeErrorResponse("", 400, RequestChecked(msg.body)),
                 ApiError(400, RequestChecked(msg.body), <<>>), ctx)
    ELSE Dispatched(c, msg.body.seq.name,
                    dispatch(msg.body.category.name, msg.body.action.name,
                             msg.body.payload.val, ctx, <<>>))

\* the callback set by setOnMessageCallback on the connection c
MessageCallback(c, msg, ctx) ==
    IF msg.type # "Message" THEN [sent |-> <<>>, out |-> OkData(Void), ctx |-> ctx]
    ELSE IF ~msg.body.parsed
    THEN Sending(c, makeErrorResponse("", 400, "json::parse_error"),
                 JsonException("json::parse_error"), ctx)
    ELSE IF RequestChecked(msg.body) = "SeqRequired"
    THEN Sending(c, makeErrorResponse("", 400, "SeqRequired"),
                 ApiError(400, "SeqRequired", <<>>), ctx)
    ELSE IF RequestChecked(msg.body) # "none"
    THEN Sending(c, makeErrorResponse(msg.body.seq.name, 400, RequestChecked(msg.body)),
                 ApiError(400, RequestChecked(msg.body), <<>>), ctx)
    ELSE Dispatched(c, msg.body.seq.name,
                    dispatch(msg.body.category.name, msg.body.action.name,
                             msg.body.payload.val, ctx, <<>>))

Seqs == {"1", "2"}

Wellformed(seq, r) ==
    Frame("Message", RequestJson(TextMember(seq), TextMember(r.category),
                                 TextMember(r.action), ObjectPayload(r.payload)))

\* requests that succeed, that fail with an ApiError, with a
\* json::exception and with a std::runtime_error
MessageRequests ==
    {Request("user", "login", Credentials(Some(StringVal(TRoot)), Some(StringVal(TRoot)))),
     Request("user", "current", Object(<<>>)),
     Request("system", "define",
             Define(Some(StringVal(TStudent)), Some(SchemaJson(TInt, TString)))),
     Request("student", "create", Items(<<ItemAuto>>)),
     Request("student", "create", Items(<<ItemAuto, ItemIndexText>>)),
     Request("student", "update", Update(Some(IntVal(2)), AgeOnly(IntVal(21)))),
     Request("teacher", "create", Object(<<>>))}

Frames ==
    {Wellformed(s, r) : s \in Seqs, r \in MessageRequests}
    \cup {Frame("Message", ParseError), Frame("Message", NoObjectJson),
          Frame("Message", RequestJson(NumberMember, TextMember("user"),
                                       TextMember("current"), ObjectPayload(Object(<<>>)))),
          Frame("Message", RequestJson(TextMember("1"), NoMember, TextMember("current"),
                                       ObjectPayload(Object(<<>>)))),
          Frame("Message", RequestJson(TextMember("2"), TextMember("user"), NumberMember,
                                       ObjectPayload(Object(<<>>)))),
          Frame("Message", RequestJson(TextMember("1"), TextMember("user"),
                                       TextMember("current"), NoPayload)),
          Frame("Message", RequestJson(TextMember("2"), TextMember("user"),
                                       TextMember("current"), ArrayPayload)),
          Frame("Close", ParseError), Frame("Ping", ParseError)}

WithinBounds(db) ==
    /\ db.maxId.student <= MaxIds
    /\ db.maxId.group <= MaxIds
    /\ db.maxId.event <= MaxEvents
    /\ db.maxUserId <= MaxUsers

\* the library read a frame from the connection c and enters the callback;
\* run is what the callback does with it, which is settled here, as no
\* other callback runs before this one returns
Receive(c, msg) ==
    /\ res.op # "received"
    /\ \E r \in {MessageCallback(c, msg, [db |-> Db, session |-> SessionOf(c)])} :
          /\ WithinBounds(r.ctx.db)
          /\ res' = [op |-> "received", conn |-> c, in |-> msg, run |-> r]
    /\ UNCHANGED <<schema, stu, logic, aux>>

CallbackReturned(c, msg, r) ==
    /\ schema' = r.ctx.db.stu_schema
    /\ grp_schema' = r.ctx.db.grp_schema
    /\ stu' = r.ctx.db.stu
    /\ grp' = r.ctx.db.grp
    /\ evt' = r.ctx.db.evt
    /\ maxId' = r.ctx.db.maxId
    /\ disk' = r.ctx.db.disk
    /\ users' = r.ctx.db.users
    /\ usernameIndex' = r.ctx.db.usernameIndex
    /\ maxUserId' = r.ctx.db.maxUserId
    /\ currentUserId' = r.ctx.db.currentUserId
    /\ session' = IF c = 1 THEN r.ctx.session ELSE session
    /\ peer' = IF c = 2 THEN r.ctx.session ELSE peer
    /\ UNCHANGED <<mutex, running>>
    /\ res' = [op |-> "returned", conn |-> c, in |-> msg, out |-> r.out, sent |-> r.sent]
    /\ UNCHANGED logic

\* the callback runs to its end
Callback ==
    /\ res.op = "received"
    /\ CallbackReturned(res.conn, res.in, res.run)

NextMessage ==
    \/ \E c \in Connections, m \in Frames : Receive(c, m)
    \/ Callback

\* the thread of the connection, having read a frame, runs the callback
SpecMessage == InitWs /\ [][NextMessage]_vars /\ WF_vars(Callback)

\* ------------------------------------------------------------------------
\* SpecAlloc: ids allocated by the store between creations, additions and
\* deletions with ids the caller chooses, the largest int among them (for
\* groups: one small id to create and delete, the largest int to add).
\* The store starts empty or with a student loaded from the directory.
\* ------------------------------------------------------------------------

AllocIds == EntityIds \cup {INT_MAX}

\* the largest id allocateStudentId and allocateGroupId have returned in
\* this run, if any
NoneReturned == [student |-> {}, group |-> {}]

Largest(ids) == {i \in ids : \A j \in ids : j <= i}

InitAlloc ==
    /\ schema = <<>>
    /\ stu \in {<<>>, 2 :> Student(<<>>, <<>>)}
    /\ logic = NoLogic
    /\ res = [op |-> "init", kind |-> "student", id |-> 0, ok |-> TRUE,
              returned |-> NoneReturned]
    /\ AuxInit

\* the call op on the entities of a kind, with the id passed or returned
AllocCalled(op, kind, id, ok, db, returned) ==
    /\ stu' = db.stu
    /\ grp' = db.grp
    /\ maxId' = db.maxId
    /\ res' = [op |-> op, kind |-> kind, id |-> id, ok |-> ok, returned |-> returned]
    /\ UNCHANGED <<schema, logic, grp_schema, evt, disk, session, peer, mutex, running,
                   users, usernameIndex, maxUserId, currentUserId>>

StoreCalled(op, kind, id, r) == AllocCalled(op, kind, id, r.ok, r.db, res.returned)

IdReturned(kind, a) ==
    AllocCalled("allocate", kind, a.id, TRUE, a.db,
                [res.returned EXCEPT ![kind] = Largest(@ \cup {a.id})])

\* allocateStudentId and allocateGroupId; the counter stays in the bound
AllocateId(kind) ==
    /\ maxId[kind] \in 0..(MaxIds - 1)
    /\ IdReturned(kind, Allocator(kind, Db))

\* the allocation at INT_MAX: a build that wraps returns an id, a build
\* that traps ends the call without one
AllocateIdOverflowing(kind) ==
    /\ maxId[kind] = INT_MAX
    /\ \/ IdReturned(kind, Allocator(kind, Db))
       \/ AllocCalled("allocate", kind, 0, FALSE, Db, res.returned)

NextAlloc ==
    \/ \E k \in {"student", "group"} : AllocateId(k)
    \/ \E k \in {"student", "group"} : AllocateIdOverflowing(k)
    \/ \E id \in AllocIds : StoreCalled("create", "student", id, createStudent(Db, id))
    \/ \E id \in AllocIds :
          StoreCalled("add", "student", id, addStudent(Db, id, Student(<<>>, <<>>)))
    \/ \E id \in AllocIds : StoreCalled("delete", "student", id, deleteStudent(Db, id))
    \/ \E id \in {1} : StoreCalled("create", "group", id, createGroup(Db, id))
    \/ \E id \in {INT_MAX} :
          StoreCalled("add", "group", id, addGroup(Db, id, Group(<<>>, <<>>)))
    \/ \E id \in {1} : StoreCalled("delete", "group", id, deleteGroup(Db, id))

SpecAlloc == InitAlloc /\ [][NextAlloc]_vars

\* ------------------------------------------------------------------------
\* SpecLock: the callbacks of two connections run at the same time, each
\* on the thread of its connection.  A handler runs up to its
\* std::scoped_lock, waits for the mutex, runs the rest while holding it
\* and releases it when the scope is left, by return or by exception.  The
\* creation of one student without id is taken in the steps that touch the
\* id counter and the map; the rest of every other handler is one step.
\* ------------------------------------------------------------------------

\* the failures handleEvent throws before it comes to its lock
EventRefused(out) == ~out.ok /\ out.code # 0

\* whether the handler of the request comes to a std::scoped_lock
ReachesLock(category, action, payload, ctx) ==
    IF category = "system"
    THEN \/ action = "commit"
         \/ /\ action = "define"
            /\ payload.target.some
            /\ IsString(payload.target.val)
            /\ payload.schema.some
            /\ parseSchema(payload.schema.val).ok
    ELSE IF category \in {"student", "group"} THEN TRUE
    ELSE IF category = "event" THEN ~EventRefused(handleEvent(action, payload, ctx).out)
    ELSE IF category = "user"
    THEN IF action = "login"
         THEN /\ payload.username.some
              /\ IsString(payload.username.val)
              /\ payload.password.some
              /\ IsString(payload.password.val)
         ELSE IF action = "logout" THEN FALSE
         ELSE ctx.session.some
    ELSE FALSE

\* mutant: the lock is taken without waiting for its holder
MayLock_NoWait == TRUE

\* std::scoped_lock lock(ctx.mutex) returns once the mutex is free
MayLock == mutex = 0

CreateOne == Request("student", "create", Items(<<ItemEmpty>>))

LockRequests ==
    {CreateOne,
     Request("system", "commit", Object(<<>>)),
     Request("system", "define",
             Define(Some(StringVal(TTeacher)), Some(SchemaJson(TInt, TString)))),
     Request("user", "login", Credentials(Some(StringVal(TRoot)), Some(StringVal(TRoot)))),
     Request("user", "login", Credentials(Absent, Some(StringVal(TRoot)))),
     Request("user", "logout", Object(<<>>)),
     Request("user", "current", Object(<<>>))}

\* the store holds what the handler left in db
DbBecomes(db) ==
    /\ schema' = db.stu_schema
    /\ grp_schema' = db.grp_schema
    /\ stu' = db.stu
    /\ grp' = db.grp
    /\ evt' = db.evt
    /\ maxId' = db.maxId
    /\ disk' = db.disk
    /\ users' = db.users
    /\ usernameIndex' = db.usernameIndex
    /\ maxUserId' = db.maxUserId
    /\ currentUserId' = db.currentUserId

SessionBecomes(c, sess) ==
    /\ session' = IF c = 1 THEN sess ELSE session
    /\ peer' = IF c = 2 THEN sess ELSE peer

\* the callbacks that are creating a student without id
Creating == {c \in Connections : running[c].pc # "idle" /\ running[c].req = CreateOne}

\* a message arrives on the connection c, whose callback is not running:
\* the handler runs to its lock, or to its end if it takes none
Begin(c, req) ==
    /\ running[c].pc = "idle"
    /\ req = CreateOne => maxId.student + Cardinality(Creating) < MaxIds
    /\ IF ReachesLock(req.category, req.action, req.payload,
                      [db |-> Db, session |-> SessionOf(c)])
       THEN /\ running' = [running EXCEPT ![c] = [pc |-> "waiting", req |-> req]]
            /\ UNCHANGED <<schema, stu, logic, res, grp_schema, grp, evt, maxId, disk,
                           session, peer, mutex, users, usernameIndex, maxUserId,
                           currentUserId>>
       ELSE \E a \in {dispatch(req.category, req.action, req.payload,
                               [db |-> Db, session |-> SessionOf(c)], <<>>)} :
               /\ DbBecomes(a.ctx.db)
               /\ SessionBecomes(c, a.ctx.session)
               /\ res' = [op |-> "request", conn |-> c, in |-> req, out |-> a.out,
                          step |-> "unlocked"]
               /\ UNCHANGED <<logic, mutex, running>>

\* the scoped_lock is constructed
Acquire(c) ==
    /\ running[c].pc = "waiting"
    /\ MayLock
    /\ mutex' = c
    /\ running' = [running EXCEPT ![c].pc = "locked"]
    /\ res' = [op |-> "lock", conn |-> c, in |-> running[c].req, out |-> OkData(Void),
               step |-> "lock"]
    /\ UNCHANGED <<schema, stu, logic, grp_schema, grp, evt, maxId, disk, session, peer,
                   users, usernameIndex, maxUserId, currentUserId>>

\* the handler allocates the id of the one item of its payload
AllocatesFirst(c) == running[c].req = CreateOne /\ ensureSchemaReady(schema)

\* allocateStudentId reads the counter
AllocateRead(c) ==
    /\ running[c].pc = "locked"
    /\ AllocatesFirst(c)
    /\ running' = [running EXCEPT ![c] = [pc |-> "read", req |-> @.req,
                                          id |-> Incremented(maxId.student)]]
    /\ res' = [op |-> "step", conn |-> c, in |-> running[c].req, out |-> OkData(Void),
               step |-> "read"]
    /\ UNCHANGED <<schema, stu, logic, grp_schema, grp, evt, maxId, disk, session, peer,
                   mutex, users, usernameIndex, maxUserId, currentUserId>>

\* allocateStudentId writes the counter and returns the id
AllocateWrite(c) ==
    /\ running[c].pc = "read"
    /\ maxId' = [maxId EXCEPT !.student = running[c].id]
    /\ running' = [running EXCEPT ![c].pc = "allocated"]
    /\ res' = [op |-> "step", conn |-> c, in |-> running[c].req, out |-> OkData(Void),
               step |-> "write"]
    /\ UNCHANGED <<schema, stu, logic, grp_schema, grp, evt, disk, session, peer,
                   mutex, users, usernameIndex, maxUserId, currentUserId>>

\* what handleStudent answers once the one item is handled
CreatedOne(r) ==
    CreateCommitted(CreateAnswer([results |-> <<r.result>>, db |-> r.db, thrown |-> FALSE]))

\* the handler has run to the end of the scope of its lock
Leaving(c, a, step) ==
    /\ DbBecomes(a.db)
    /\ running' = [running EXCEPT ![c] = [pc |-> "leaving", req |-> @.req, out |-> a.out]]
    /\ res' = [op |-> "step", conn |-> c, in |-> running[c].req, out |-> a.out,
               step |-> step]
    /\ UNCHANGED <<logic, mutex>>

\* the factory and the assignment with the allocated id, and the commit
CreateEntity(c) ==
    /\ running[c].pc = "allocated"
    /\ \E a \in {CreatedOne(CreateWithId("student", ItemEmpty,
                                         [id |-> running[c].id, db |-> Db]))} :
          Leaving(c, a, "create")
    /\ UNCHANGED <<session, peer>>

\* the rest of any other handler
Body(c) ==
    /\ running[c].pc = "locked"
    /\ ~AllocatesFirst(c)
    /\ \E a \in {dispatch(running[c].req.category, running[c].req.action,
                          running[c].req.payload,
                          [db |-> Db, session |-> SessionOf(c)], <<>>)} :
          /\ Leaving(c, [out |-> a.out, db |-> a.ctx.db], "body")
          /\ SessionBecomes(c, a.ctx.session)

\* the scoped_lock is destroyed and the callback sends the response
Release(c) ==
    /\ running[c].pc = "leaving"
    /\ mutex' = 0
    /\ running' = [running EXCEPT ![c] = [pc |-> "idle"]]
    /\ res' = [op |-> "request", conn |-> c, in |-> running[c].req,
               out |-> running[c].out, step |-> "unlock"]
    /\ UNCHANGED <<schema, stu, logic, grp_schema, grp, evt, maxId, disk, session, peer,
                   users, usernameIndex, maxUserId, currentUserId>>

\* a step of the thread of connection c inside its handler
Step(c) ==
    \/ AllocateRead(c)
    \/ AllocateWrite(c)
    \/ CreateEntity(c)
    \/ Body(c)
    \/ Release(c)

InitLock ==
    /\ schema = [f \in {"age"} |-> "Int"]
    /\ stu = <<>>
    /\ logic = NoLogic
    /\ res = [op |-> "init", conn |-> 0, in |-> NoInput, out |-> OkData(Void),
              step |-> "init"]
    /\ AuxInit

NextLock ==
    \/ \E c \in Connections, r \in LockRequests : Begin(c, r)
    \/ \E c \in Connections : Acquire(c)
    \/ \E c \in Connections : Step(c)

\* a thread that is running goes on running, and a thread waiting for the
\* mutex gets it when it is released again and again
SpecLock ==
    /\ InitLock
    /\ [][NextLock]_vars
    /\ \A c \in Connections : WF_vars(Step(c)) /\ SF_vars(Acquire(c))

\* ------------------------------------------------------------------------
\* SpecManager: one UserManager whose operations are all called in any
\* order, the ones that check the permission of the current user and the
\* ones that do not (addUser, removeUser, updateUser*).  addUser is called
\* with users the caller builds: any id, either name.
\* ------------------------------------------------------------------------

\* the users a caller passes to addUser
UsersToAdd ==
    {User(id, n, hashPassword(TAbc), READ, TRUE) : id \in UserIds, n \in UserNames}

AddUser(user) ==
    UmCall("addUser", UserArgs(user.username, <<>>, user.id, user.permission, user.active),
           addUser(Um, user))

RemoveUser(userId) ==
    UmCall("removeUser", UserArgs(<<>>, <<>>, userId, NONE, FALSE), removeUser(Um, userId))

UpdateUserPermission(userId, perm) ==
    UmCall("updateUserPermission", UserArgs(<<>>, <<>>, userId, perm, FALSE),
           updateUserPermission(Um, userId, perm))

UpdateUserPassword(userId, newPassword) ==
    UmCall("updateUserPassword", UserArgs(<<>>, newPassword, userId, NONE, FALSE),
           updateUserPassword(Um, userId, newPassword))

UpdateUserActive(userId, active) ==
    UmCall("updateUserActive", UserArgs(<<>>, <<>>, userId, NONE, active),
           updateUserActive(Um, userId, active))

NextManager ==
    \/ \E n \in UserNames, p \in Passwords : Login(n, p)
    \/ Logout
    \/ \E n \in UserNames, perm \in UserPerms : CreateUser(n, TAbc, perm)
    \/ \E id \in UserIds : DeleteUser(id)
    \/ \E n \in UserNames : DeleteUserByName(n)
    \/ \E u \in UsersToAdd : AddUser(u)
    \/ \E id \in UserIds : RemoveUser(id)
    \/ \E id \in UserIds, perm \in UserPerms : UpdateUserPermission(id, perm)
    \/ \E id \in UserIds, p \in Passwords : UpdateUserPassword(id, p)
    \/ \E id \in UserIds, a \in BOOLEAN : UpdateUserActive(id, a)

SpecManager == InitWs /\ [][NextManager]_vars

\* ------------------------------------------------------------------------
\* Properties
\* ------------------------------------------------------------------------

\* the semantic type a C++ value type stands for
KindOfValueType(vt) ==
    CASE vt = "short" -> "Integer"
      [] vt = "int" -> "Integer"
      [] vt = "double" -> "Float"
      [] vt = "string" -> "Text"
      [] OTHER -> "none"

\* the semantic type a schema entry declares
KindOfFieldType(ft) ==
    CASE ft = "Int" -> "Integer"
      [] ft = "Double" -> "Float"
      [] ft = "String" -> "Text"
      [] OTHER -> "none"

IsAccess(r) == r.op \in {"get", "set"}

\* C1: a get or set whose requested type differs from the type the schema
\* declares for the field (any two distinct types among Integer, Float and
\* Text) fails with TypeMismatch, and the step leaves every property bag as
\* it was.
C1_TypeMismatch ==
    [][(/\ IsAccess(res')
        /\ res'.in.key \in DOMAIN schema'
        /\ KindOfValueType(res'.in.vt) # "none"
        /\ KindOfValueType(res'.in.vt) # KindOfFieldType(schema'[res'.in.key]))
       => (/\ ~res'.out.ok
           /\ res'.out.err = "TypeMismatch"
           /\ stu' = stu)]_vars

\* a Float value was assigned to an Integer field that held a text
C1_Witness ==
    /\ res.op = "set"
    /\ res.in.vt = "double"
    /\ res.in.key \in DOMAIN schema
    /\ schema[res.in.key] = "Int"
    /\ res.in.key \in DOMAIN stu[res.in.id].metadata
    /\ res.out.err = "TypeMismatch"

\* C2: a get or set on a field the schema does not declare fails with
\* FieldNotDeclared after the schema lookup alone (no type check, no read of
\* the bag, no parse, no write), whatever the type and whatever the bag
\* holds under that name, and leaves every property bag as it was.
C2_FieldNotDeclared ==
    [][(IsAccess(res') /\ res'.in.key \notin DOMAIN schema')
       => (/\ ~res'.out.ok
           /\ res'.out.err = "FieldNotDeclared"
           /\ res'.out.trace = <<"find">>
           /\ stu' = stu)]_vars

\* a set on an undeclared field under which the bag holds a value left over
\* from an older schema
C2_Witness ==
    /\ res.op = "set"
    /\ res.in.key \notin DOMAIN schema
    /\ res.in.key \in DOMAIN stu[res.in.id].metadata
    /\ res.out.err = "FieldNotDeclared"

\* the text a typed read of the last call's field starts from
StoredText(r) ==
    IF r.in.key \in DOMAIN stu[r.in.id].metadata THEN stu[r.in.id].metadata[r.in.key] ELSE <<>>

\* the last call read or wrote a declared field with the declared type
IsTypedAccess(r, op) ==
    /\ r.op = op
    /\ r.in.key \in DOMAIN schema
    /\ KindOfValueType(r.in.vt) = KindOfFieldType(schema[r.in.key])

\* s starts with a number of the kind: digits after an optional minus sign,
\* for a Float also a '.' followed by a digit
HasNumberPrefix(s, kind) ==
    LET p == IF Len(s) >= 1 /\ s[1] = "-" THEN 2 ELSE 1
    IN /\ p <= Len(s)
       /\ \/ IsDigit(s[p])
          \/ kind = "Float" /\ s[p] = "." /\ p + 1 <= Len(s) /\ IsDigit(s[p + 1])

\* s is a number of the kind from its first to its last character
IsWholeNumber(s, kind) ==
    /\ HasNumberPrefix(s, kind)
    /\ IF kind = "Integer"
       THEN \A i \in 2..Len(s) : IsDigit(s[i])
       ELSE /\ \A i \in 2..Len(s) : IsDigit(s[i]) \/ s[i] \in {".", "e", "E", "+", "-"}
            /\ IsDigit(s[Len(s)]) \/ s[Len(s)] = "."

\* the texts of SpecParse whose leading number does not fit the type
OutOfRangeFor(vt) ==
    CASE vt = "short" -> {T40000, T32768, TMinus32769, T99999abc} \cup LimitTexts
      [] vt = "int" -> {TIntMaxPlus1, TIntMinMinus1}
      [] vt = "double" -> {T1e999, T1e999abc}
      [] OTHER -> {}

\* C3: reading an Integer or Float field parses the whole stored text:
\* EmptyValue for the empty text, InvalidFormat for a text without a number
\* prefix, OutOfRange for a number that does not fit the requested type,
\* PartialConversion for a fitting number followed by further characters;
\* a number is returned only when the whole text is that number.
C3_StrictParse ==
    (IsTypedAccess(res, "get") /\ res.in.vt # "string") =>
        LET str == StoredText(res)
            kind == KindOfValueType(res.in.vt)
            out == res.out
        IN /\ out.ok \/ out.err \in {"EmptyValue", "InvalidFormat", "OutOfRange", "PartialConversion"}
           /\ out.err = "EmptyValue" <=> str = <<>>
           /\ out.err = "InvalidFormat" <=> (str # <<>> /\ ~HasNumberPrefix(str, kind))
           /\ out.err = "OutOfRange" <=> str \in OutOfRangeFor(res.in.vt)
           /\ out.err = "PartialConversion" <=>
                 (/\ HasNumberPrefix(str, kind)
                  /\ ~IsWholeNumber(str, kind)
                  /\ str \notin OutOfRangeFor(res.in.vt))
           /\ out.ok => /\ IsWholeNumber(str, kind)
                        /\ kind = "Integer" => out.val = IntVal(out.val.i) /\ FormatInt(out.val.i) = str
                        /\ kind = "Float" => out.val = DoubleVal(out.val.d)
                        /\ (kind = "Float" /\ str # T1p5e1) => FormatDouble(out.val.d) = str
                        /\ (kind = "Float" /\ str = T1p5e1) => out.val.d = ToDouble(15)
           /\ str = T123abc => out.err = "PartialConversion"
           /\ str = TAbc => out.err = "InvalidFormat"

\* "123abc" was read from an Integer field
C3_Witness ==
    /\ IsTypedAccess(res, "get")
    /\ res.in.vt = "int"
    /\ StoredText(res) = T123abc
    /\ res.out.err = "PartialConversion"

EncodingOf(value) ==
    CASE value = IntVal(20) -> T20
      [] value = DoubleVal(NormDec(855, -1)) -> T85p5
      [] value.t = "string" -> value.s

\* C5: a successful set makes the entry of its field exactly the encoding of
\* its value, whatever was stored before, and changes nothing else: not the
\* other entries of the bag, not the membership list, not another student,
\* not the schema; the same set issued again changes nothing at all.
C5_SetFrame ==
    [][/\ (res'.op = "set" /\ res'.out.ok) =>
            LET id == res'.in.id
                key == res'.in.key
            IN /\ schema' = schema
               /\ DOMAIN stu' = DOMAIN stu
               /\ \A j \in DOMAIN stu \ {id} : stu'[j] = stu[j]
               /\ stu'[id].groups = stu[id].groups
               /\ DOMAIN stu'[id].metadata = DOMAIN stu[id].metadata \cup {key}
               /\ stu'[id].metadata[key] = EncodingOf(res'.in.value)
               /\ \A k \in DOMAIN stu[id].metadata \ {key} :
                      stu'[id].metadata[k] = stu[id].metadata[k]
       /\ (res.op = "set" /\ res.out.ok /\ res'.op = "set" /\ res'.in = res.in) =>
            (res'.out.ok /\ stu' = stu)]_vars

\* a set succeeded on a student whose bag holds another entry as well, while
\* another student holds entries of its own
C5_Witness ==
    /\ res.op = "set"
    /\ res.out.ok
    /\ DOMAIN stu[res.in.id].metadata = Names
    /\ \E j \in DOMAIN stu \ {res.in.id} : DOMAIN stu[j].metadata = Names

\* C6: get of a declared field that the student's bag does not hold, asked
\* with the declared type, fails with EmptyValue for an Integer or Float
\* field and returns the empty string for a Text field.
C6_UnsetField ==
    (IsTypedAccess(res, "get") /\ res.in.key \notin DOMAIN stu[res.in.id].metadata) =>
        IF res.in.vt = "string"
        THEN res.out.ok /\ res.out.val = StringVal(<<>>)
        ELSE ~res.out.ok /\ res.out.err = "EmptyValue"

\* an Integer field that was never set was read as an integer
C6_Witness ==
    /\ IsTypedAccess(res, "get")
    /\ res.in.vt = "int"
    /\ res.in.key \notin DOMAIN stu[res.in.id].metadata
    /\ res.out.err = "EmptyValue"

\* the last call evaluated a leaf rule that carries a literal
IsLeafEval(r) == r.op = "evaluate" /\ r.in.node.kind = "leaf" /\ r.in.node.hasVal

\* C7: a leaf rule on a field that the schema declares and for which the
\* snapshot has no value evaluates to false, without an error, whatever its
\* operator token (!= and unsupported tokens included) and its literal.
C7_AbsentIsFalse ==
    (/\ IsLeafEval(res)
     /\ res.in.node.field \in DOMAIN schema
     /\ res.in.node.field \notin DOMAIN res.in.data)
    => (res.out.ok /\ res.out.val = FALSE)

\* != was evaluated on a declared field that the student's bag does not hold
C7_Witness ==
    /\ IsLeafEval(res)
    /\ res.in.node.op = OpNe
    /\ res.in.node.field \in DOMAIN schema
    /\ res.in.node.field \notin DOMAIN stu[res.in.id].metadata
    /\ res.out.ok
    /\ ~res.out.val

\* C8: a leaf rule whose field the schema does not declare fails with
\* FieldNotDeclared (status 422), the snapshot having no value under that
\* name; evaluated as a child of a combinator it ends the evaluation with
\* that error, no boolean being returned in its place.
C8_UndeclaredField ==
    res.op = "evaluate" =>
        \A i \in 1..Len(res.out.visited) :
            LET n == res.out.visited[i]
            IN (n.hasVal /\ n.field \notin DOMAIN schema) =>
                  /\ n.field \notin DOMAIN res.in.data
                  /\ ~res.out.ok
                  /\ res.out.err = "FieldNotDeclared"
                  /\ res.out.code = 422
                  /\ i = Len(res.out.visited)

\* a leaf named a field that the schema does not declare, while the bag
\* holds a text under that name
C8_Witness ==
    /\ IsLeafEval(res)
    /\ res.in.node.field \notin DOMAIN schema
    /\ res.in.node.field \in DOMAIN stu[res.in.id].metadata
    /\ res.out.err = "FieldNotDeclared"

\* the literal cannot be compared with a value of the field type
Incompatible(type, lit) == IF type = "String" THEN ~IsString(lit) ELSE ~IsNumber(lit)

\* C9: when the snapshot holds a value for the leaf's field and the literal
\* is not of the field's kind (a literal that is not a text against a Text
\* field, a literal that is not a number against an Integer or Float
\* field), the evaluation fails with TypeMismatch for every operator token.
C9_LiteralType ==
    (/\ IsLeafEval(res)
     /\ res.in.node.field \in DOMAIN res.in.data
     /\ Incompatible(schema[res.in.node.field], res.in.node.val))
    => (~res.out.ok /\ res.out.err = "TypeMismatch" /\ res.out.code = 422)

\* the text "20" was compared with == against an Integer field holding 20
C9_Witness ==
    /\ IsLeafEval(res)
    /\ res.in.node.op = OpEq
    /\ res.in.node.field \in DOMAIN res.in.data
    /\ schema[res.in.node.field] = "Int"
    /\ res.in.data[res.in.node.field] = IntVal(20)
    /\ res.in.node.val = StringVal(T20)
    /\ res.out.err = "TypeMismatch"

NumericOps == {OpEq, OpNe, OpGt, OpGe, OpLt, OpLe}

TextOps == {OpEq, OpNe, OpContains, OpStartsWith, OpEndsWith}

\* ten times the number j, an integer for the numbers of SpecEval
Tenfold(j) == LET d == GetDouble(j) IN d.m * Pow10(d.e + 1)

\* the mathematical result of a op b on numbers
NumericResult(a, b, op) ==
    CASE op = OpEq -> Tenfold(a) = Tenfold(b)
      [] op = OpNe -> Tenfold(a) # Tenfold(b)
      [] op = OpGt -> Tenfold(a) > Tenfold(b)
      [] op = OpGe -> Tenfold(a) >= Tenfold(b)
      [] op = OpLt -> Tenfold(a) < Tenfold(b)
      [] op = OpLe -> Tenfold(a) <= Tenfold(b)

\* the case-sensitive result of a op b on texts: b lies in a between some
\* prefix and some suffix of a
TextResult(a, b, op) ==
    LET Between(i, j) == a = SubSeq(a, 1, i) \o b \o SubSeq(a, j + 1, Len(a))
    IN CASE op = OpEq -> a = b
         [] op = OpNe -> a # b
         [] op = OpContains -> \E i \in 0..Len(a), j \in 0..Len(a) : i <= j /\ j - i = Len(b) /\ Between(i, j)
         [] op = OpStartsWith -> \E j \in 0..Len(a) : j = Len(b) /\ Between(0, j)
         [] op = OpEndsWith -> \E i \in 0..Len(a) : Len(a) - i = Len(b) /\ Between(i, Len(a))

\* the tokens of SpecEval that spell a text operator in another letter case
TextOpSpelled(op) ==
    CASE op = OpContainsUpper -> OpContains
      [] op = OpEndsWithMixed -> OpEndsWith
      [] OTHER -> op

\* the last call compared a snapshot value with a literal of its kind
IsComparison(r) ==
    /\ IsLeafEval(r)
    /\ r.in.node.field \in DOMAIN r.in.data
    /\ ~Incompatible(schema[r.in.node.field], r.in.node.val)

\* C10 as stated: on a leaf whose field has a value, exactly the six numeric
\* tokens on a number field and exactly the five text tokens on a Text
\* field yield a result; every other token, one differing only in letter
\* case included, fails with UnsupportedOperator.
C10_ExactTokens ==
    IsComparison(res) =>
        LET accepted == IF schema[res.in.node.field] = "String" THEN TextOps ELSE NumericOps
        IN IF res.in.node.op \in accepted
           THEN res.out.ok
           ELSE ~res.out.ok /\ res.out.err = "UnsupportedOperator"

\* C10: on a leaf whose field has a value, a number field accepts exactly the
\* tokens ==, !=, >, >=, <, <= and a Text field the tokens ==, !=, contains,
\* starts_with, ends_with spelled in any letter case; the result is the
\* mathematical one for numbers and the case-sensitive one for texts; every
\* other token fails with UnsupportedOperator (status 422).
C10_Operators ==
    IsComparison(res) =>
        LET n == res.in.node
            lhs == res.in.data[n.field]
            isText == schema[n.field] = "String"
            op == IF isText THEN TextOpSpelled(n.op) ELSE n.op
        IN IF op \in (IF isText THEN TextOps ELSE NumericOps)
           THEN /\ res.out.ok
                /\ res.out.val = IF isText THEN TextResult(lhs.s, n.val.s, op)
                                 ELSE NumericResult(lhs, n.val, op)
           ELSE ~res.out.ok /\ res.out.err = "UnsupportedOperator" /\ res.out.code = 422

\* CONTAINS in capitals found "lic" in the Text value "Alice"
C10_Witness ==
    /\ IsComparison(res)
    /\ res.in.node.op = OpContainsUpper
    /\ res.in.data[res.in.node.field] = StringVal(TAlice)
    /\ res.in.node.val = StringVal(TLic)
    /\ res.out.ok
    /\ res.out.val

\* the last call evaluated an AND or OR node that has children
IsCombEval(r) ==
    /\ r.op = "evaluate"
    /\ r.in.node.kind = "comb"
    /\ r.in.node.op \in {OpAnd, OpOr}
    /\ Len(r.in.node.rules) > 0

\* the outcome of child i of the evaluated node, evaluated on its own
ChildOut(r, i) == evaluateLogicNode(r.in.data, r.in.node.rules[i], schema)

\* no leaf of the tree n names an undeclared field
RECURSIVE ErrorFree(_)
ErrorFree(n) ==
    IF n.kind = "leaf" THEN n.field \in DOMAIN schema
    ELSE \A i \in 1..Len(n.rules) : ErrorFree(n.rules[i])

\* what the leaves of SpecTree say of a snapshot
LeafTruth(n, data) ==
    CASE n = LeafAgeGe -> "age" \in DOMAIN data /\ data["age"].i >= 20
      [] n = LeafAgeLt -> "age" \in DOMAIN data /\ data["age"].i < 20
      [] n = LeafName -> "name" \in DOMAIN data /\ data["name"].s = TAlice

\* the conjunction and disjunction a tree of such leaves denotes
RECURSIVE Truth(_, _)
Truth(n, data) ==
    IF n.kind = "leaf" THEN LeafTruth(n, data)
    ELSE IF n.op = OpAnd THEN \A i \in 1..Len(n.rules) : Truth(n.rules[i], data)
    ELSE \E i \in 1..Len(n.rules) : Truth(n.rules[i], data)

\* C11: an AND node whose children all evaluate to a boolean is true exactly
\* when every child is true, an OR node exactly when some child is true,
\* for children in any order and for nested nodes: a tree without failing
\* leaves evaluates to the conjunction/disjunction it denotes.
C11_AndOr ==
    IsCombEval(res) =>
        LET n == res.in.node
            idx == 1..Len(n.rules)
        IN /\ (\A i \in idx : ChildOut(res, i).ok) =>
                 /\ res.out.ok
                 /\ res.out.val = IF n.op = OpAnd THEN \A i \in idx : ChildOut(res, i).val
                                  ELSE \E i \in idx : ChildOut(res, i).val
           /\ ErrorFree(n) => (res.out.ok /\ res.out.val = Truth(n, res.in.data))

\* an AND of three children, the last of them an OR of a false and a true
\* leaf, evaluated to true
C11_Witness ==
    /\ IsCombEval(res)
    /\ res.in.node.op = OpAnd
    /\ Len(res.in.node.rules) = 3
    /\ res.in.node.rules[3] = Comb(OpOr, <<LeafAgeLt, LeafAgeGe>>)
    /\ res.out.ok
    /\ res.out.val

\* child i of the evaluated node ends the evaluation: it fails, or it is a
\* false child of AND, or a true child of OR
Decides(r, i) == ~ChildOut(r, i).ok \/ ChildOut(r, i).val = (r.in.node.op = OpOr)

\* the position of the first child that ends the evaluation, the last
\* position when no child does
StopAt(r) ==
    LET idx == 1..Len(r.in.node.rules)
    IN IF \E i \in idx : Decides(r, i)
       THEN CHOOSE i \in idx : Decides(r, i) /\ \A j \in 1..(i - 1) : ~Decides(r, j)
       ELSE Len(r.in.node.rules)

\* the leaves evaluated by children i..k, each child evaluated on its own
RECURSIVE VisitedBy(_, _, _)
VisitedBy(r, i, k) == IF i > k THEN <<>> ELSE ChildOut(r, i).visited \o VisitedBy(r, i + 1, k)

\* C12: AND and OR evaluate their children from left to right up to the
\* first child that fails or decides the result (a false child of AND, a
\* true child of OR) and no further: the leaves evaluated are those of the
\* children up to that one, the error of that child is the error of the
\* node, and an error that a later child would raise is not raised.
C12_ShortCircuit ==
    IsCombEval(res) =>
        LET n == res.in.node
            k == StopAt(res)
            last == ChildOut(res, k)
        IN /\ res.out.visited = VisitedBy(res, 1, k)
           /\ (\A i \in 1..k : n.rules[i].kind = "leaf") => res.out.visited = SubSeq(n.rules, 1, k)
           /\ IF last.ok
              THEN res.out.ok /\ res.out.val = last.val
              ELSE ~res.out.ok /\ res.out.err = last.err /\ res.out.code = last.code

\* an AND returned false after its first child, the second child being a
\* leaf on an undeclared field
C12_Witness ==
    /\ IsCombEval(res)
    /\ res.in.node.op = OpAnd
    /\ res.in.node.rules = <<LeafAgeLt, LeafName>>
    /\ "name" \notin DOMAIN schema
    /\ res.out.ok
    /\ ~res.out.val
    /\ res.out.visited = <<LeafAgeLt>>

\* the last call evaluated a combinator node
IsNodeEval(r) == r.op = "evaluate" /\ r.in.node.kind = "comb"

\* C13 as stated: a combinator without children fails with EmptyRuleSet
\* when its token is AND or OR, and a combinator whose token is neither AND
\* nor OR fails with UnsupportedOperator.
C13_AsStated ==
    IsNodeEval(res) =>
        LET n == res.in.node
        IN /\ (n.op \in {OpAnd, OpOr} /\ Len(n.rules) = 0) =>
                 (~res.out.ok /\ res.out.err = "EmptyRuleSet")
           /\ n.op \notin {OpAnd, OpOr} =>
                 (~res.out.ok /\ res.out.err = "UnsupportedOperator")

\* C13: a combinator without children fails with EmptyRuleSet (status 400)
\* whatever its token; a combinator with children whose token is not AND
\* or OR in some letter case fails with UnsupportedOperator (status 400);
\* a token that spells AND in lower case is evaluated as AND.
C13_Combinator ==
    IsNodeEval(res) =>
        LET n == res.in.node
        IN /\ Len(n.rules) = 0 =>
                 (~res.out.ok /\ res.out.err = "EmptyRuleSet" /\ res.out.code = 400)
           /\ (Len(n.rules) > 0 /\ n.op = OpXor) =>
                 (~res.out.ok /\ res.out.err = "UnsupportedOperator" /\ res.out.code = 400)
           /\ (Len(n.rules) > 0 /\ n.op = OpAndLower) =>
                 res.out = evaluateLogicNode(res.in.data, Comb(OpAnd, n.rules), schema)

\* a node with the token "and" and two children evaluated to a boolean
C13_Witness ==
    /\ IsNodeEval(res)
    /\ res.in.node.op = OpAndLower
    /\ Len(res.in.node.rules) = 2
    /\ res.out.ok

\* the C++ type the accessor reads a field of the declared type with
ValueTypeOf(ft) ==
    CASE ft = "Int" -> "int"
      [] ft = "Double" -> "double"
      [] ft = "String" -> "string"

\* C14 as stated: the snapshot built for a query holds a value for a field
\* exactly when the schema declares the field, the bag has an entry for it
\* and the strict decoding of the accessor accepts the stored text, and the
\* value is the decoded one.
C14_SnapshotIsCodec ==
    res.op = "evaluate" =>
        LET meta == stu[res.in.id].metadata
            Decoded(f) == WrapperGet(meta, schema, f, ValueTypeOf(schema[f]))
        IN /\ DOMAIN res.in.data = {f \in DOMAIN schema \cap DOMAIN meta : Decoded(f).ok}
           /\ \A f \in DOMAIN res.in.data : res.in.data[f] = Decoded(f).val

IsEntityRequest(r) ==
    /\ r.op = "request"
    /\ r.in.category \in {"student", "group"}
    /\ r.in.action \in {"create", "query", "update"}

\* C16: a student or group create, query or update request made while the
\* schema of that entity kind is empty is answered with the
\* schema-not-defined error (code 422) without any db function having been
\* called: no factory, fetcher, allocator or map access, so the maps, the
\* id counters and the files are as before.
C16_SchemaNotDefined ==
    [][(IsEntityRequest(res') /\ SchemaOf(res'.in.category, Db) = <<>>) =>
          /\ res'.response.status = "error"
          /\ res'.response.code = 422
          /\ res'.out.err = "SchemaNotDefined"
          /\ res'.log = <<>>
          /\ UNCHANGED <<stu, grp, evt, maxId, disk, schema, grp_schema>>]_vars

\* an update of a stored student refused for want of a schema
C16_Witness ==
    /\ IsEntityRequest(res)
    /\ res.in.category = "student"
    /\ res.in.action = "update"
    /\ res.out.err = "SchemaNotDefined"
    /\ schema = <<>>
    /\ res.in.payload.id.i \in DOMAIN stu

\* the requests the end-to-end tests send without a login and expect to be
\* refused
NeedsLogin(q) ==
    \/ q.category = "student" /\ q.action = "create"
    \/ q.category = "event" /\ q.action = "create"
    \/ q.category = "system" /\ q.action = "commit"

\* a system define request with a target and a schema the handler accepts
IsValidDefine(q) ==
    /\ q.category = "system"
    /\ q.action = "define"
    /\ q.payload.target.some
    /\ IsString(q.payload.target.val)
    /\ toLowerCopy(q.payload.target.val.s) \in {TStudent, TGroup}
    /\ q.payload.schema.some
    /\ parseSchema(q.payload.schema.val).ok

\* C17: a student create, event create or system commit request sent on a
\* connection that has not logged in is answered with an error response
\* carrying code 401 and changes nothing in the store, whereas a system
\* define request succeeds without login.
C17_LoginRequired ==
    [][(res'.op = "request" /\ ~session.some) =>
          /\ NeedsLogin(res'.in) =>
                /\ res'.response.status = "error"
                /\ res'.response.code = 401
                /\ UNCHANGED <<stu, grp, evt, maxId, disk, schema, grp_schema>>
          /\ IsValidDefine(res'.in) => res'.response.status = "ok"]_vars

\* a user named username is in the table um.users, is active and has the
\* password stored
CanLogin(table, username, password) ==
    \E id \in DOMAIN table :
        /\ table[id].username = username
        /\ table[id].active
        /\ table[id].passwordHash = hashPassword(password)

\* C18: login(username, password) returns true and makes that user the
\* current user exactly when a user with that name exists, is active and
\* the password matches the stored one; otherwise it returns false and the
\* current user is who it was before the call.  The user table, the index
\* and the id counter are not touched either way.
C18_Login ==
    [][res'.op = "login" =>
          /\ res'.out.ok
          /\ UNCHANGED <<users, usernameIndex, maxUserId>>
          /\ IF CanLogin(users, res'.in.username, res'.in.password)
             THEN /\ res'.out.val.b
                  /\ currentUserId' \in DOMAIN users
                  /\ users[currentUserId'].username = res'.in.username
             ELSE /\ ~res'.out.val.b
                  /\ currentUserId' = currentUserId]_vars

\* a disabled user was refused with the right password while somebody else
\* stayed logged in
C18_Witness ==
    /\ res.op = "login"
    /\ ~res.out.val.b
    /\ currentUserId # NoUser
    /\ \E id \in DOMAIN users :
          /\ users[id].username = res.in.username
          /\ ~users[id].active
          /\ users[id].passwordHash = hashPassword(res.in.password)
          /\ id # currentUserId

\* the bits set in a permission
BitsOf(p) == {k \in 0..7 : (p \div (2 ^ k)) % 2 = 1}

\* the current user holds every bit of the permission required
Holds(table, current, required) ==
    /\ current # NoUser
    /\ current \in DOMAIN table
    /\ BitsOf(required) \subseteq BitsOf(table[current].permission)

\* C19: nobody is logged in initially and after every logout; as long as
\* nobody is logged in checkPermission(p) is false and requirePermission(p)
\* throws PermissionDenied for every p; while a user is logged in
\* checkPermission(p) is true exactly when every bit of p is set in that
\* user's permission (requirePermission(p) returns exactly then), so a ROOT
\* user passes every check.
C19_CheckPermission ==
    /\ currentUserId = NoUser
    /\ [][/\ res'.op = "logout" => currentUserId' = NoUser
          /\ res'.op = "checkPermission" =>
                /\ res'.out.val.b = Holds(users, currentUserId, res'.in.perm)
                /\ (currentUserId # NoUser /\ users[currentUserId].permission = ROOT)
                      => res'.out.val.b
          /\ res'.op = "requirePermission" =>
                /\ res'.out.ok = Holds(users, currentUserId, res'.in.perm)
                /\ ~res'.out.ok => res'.out.err = "PermissionDenied"]_vars

\* a logged-in user holding WRITE and DELETE was refused READ and WRITE
\* together
C19_Witness ==
    /\ res.op = "checkPermission"
    /\ currentUserId # NoUser
    /\ users[currentUserId].permission = WRITE_DELETE
    /\ res.in.perm = READ + WRITE
    /\ ~res.out.val.b

\* the current user is logged in and has ROOT permission
IsRoot(table, current) ==
    /\ current # NoUser
    /\ current \in DOMAIN table
    /\ table[current].permission = ROOT

\* C20: createUser, deleteUser, setUserPermission and setUserActive fail
\* with PermissionDenied unless the currently logged-in user has ROOT
\* permission (nobody being logged in included), and after such a failure
\* the user table, the username index and the user id counter are
\* unchanged.
C20_RootOnly ==
    [][(/\ res'.op \in {"createUser", "deleteUser", "setUserPermission", "setUserActive"}
        /\ ~IsRoot(users, currentUserId)) =>
          /\ ~res'.out.ok
          /\ res'.out.err = "PermissionDenied"
          /\ UNCHANGED <<users, usernameIndex, maxUserId>>]_vars

\* the manager after the step
UmNext ==
    [users |-> users', usernameIndex |-> usernameIndex',
     maxUserId |-> maxUserId', currentUserId |-> currentUserId']

\* login(username, password) would return true on the manager um
LoginSucceeds(um, username, password) ==
    /\ login(um, username, password).out.ok
    /\ login(um, username, password).out.val.b

\* changePassword(userId, new, old) may change the password: the account is
\* the caller's own and old is its password, or it is another account and
\* the caller is ROOT
MayChangePassword(userId, old) ==
    \/ /\ userId = currentUserId
       /\ users[userId].passwordHash = hashPassword(old)
    \/ /\ userId # currentUserId
       /\ IsRoot(users, currentUserId)

\* what every changePassword call does, whoever the account belongs to
ChangePasswordFrame ==
    /\ UNCHANGED <<usernameIndex, maxUserId, currentUserId>>
    /\ currentUserId = NoUser => UNCHANGED users
    /\ IF res'.out.ok
       THEN /\ res'.in.userId \in DOMAIN users
            /\ MayChangePassword(res'.in.userId, res'.in.old)
            /\ users' = [users EXCEPT ![res'.in.userId].passwordHash =
                                          hashPassword(res'.in.password)]
       ELSE UNCHANGED users

\* a changePassword call succeeded and the password set differs from p, the
\* password the account had
ChangedFrom(p) ==
    /\ res'.op = "changePassword"
    /\ res'.out.ok
    /\ users[res'.in.userId].passwordHash = hashPassword(p)
    /\ p # res'.in.password

\* C21 as stated: changePassword changes the own password only with the
\* matching old password, another user's only as ROOT, nothing when nobody
\* is logged in; after a successful change to a different password login
\* with the old password fails and login with the new one succeeds.
C21_AsStated ==
    [][/\ res'.op = "changePassword" => ChangePasswordFrame
       /\ \A p \in Passwords : ChangedFrom(p) =>
             /\ ~LoginSucceeds(UmNext, users[res'.in.userId].username, p)
             /\ LoginSucceeds(UmNext, users[res'.in.userId].username,
                              res'.in.password)]_vars

\* C21: as above, except that login with the new password succeeds exactly
\* when the account is active: a disabled account whose password ROOT has
\* changed is still refused.
C21_ChangePassword ==
    [][/\ res'.op = "changePassword" => ChangePasswordFrame
       /\ \A p \in Passwords : ChangedFrom(p) =>
             /\ ~LoginSucceeds(UmNext, users[res'.in.userId].username, p)
             /\ LoginSucceeds(UmNext, users[res'.in.userId].username,
                              res'.in.password)
                   = users[res'.in.userId].active]_vars

\* a user other than root changed the own password from "abc" to "root"
C21_Witness ==
    /\ res.op = "changePassword"
    /\ res.out.ok
    /\ res.in.userId = currentUserId
    /\ users[currentUserId].username = TBob
    /\ res.in.old = TAbc
    /\ res.in.password = TRoot
    /\ users[currentUserId].passwordHash = hashPassword(TRoot)

\* the call is one that stores a student or a group under the id given
StoresStudent(op) == op \in {"createStudent", "addStudent"}

StoresGroup(op) == op \in {"createGroup", "addGroup"}

\* C22: createStudent, addStudent, createGroup and addGroup with an id
\* that is already present throw and leave the existing entity, the rest
\* of the store and the id counter unchanged; getStudent and getGroup with
\* an id that is not present throw and create nothing.
C22_DuplicateAndMissing ==
    [][/\ (StoresStudent(res'.op) /\ res'.in.id \in DOMAIN stu) =>
             ~res'.out.ok /\ UNCHANGED <<stu, grp, evt, maxId>>
       /\ (StoresGroup(res'.op) /\ res'.in.id \in DOMAIN grp) =>
             ~res'.out.ok /\ UNCHANGED <<stu, grp, evt, maxId>>
       /\ (res'.op = "getStudent" /\ res'.in.id \notin DOMAIN stu) =>
             ~res'.out.ok /\ UNCHANGED <<stu, grp, evt, maxId>>
       /\ (res'.op = "getGroup" /\ res'.in.id \notin DOMAIN grp) =>
             ~res'.out.ok /\ UNCHANGED <<stu, grp, evt, maxId>>]_vars

\* a student built by the caller was refused because student 1, which has
\* other content, was there; the greater id 2 had been deleted before
C22_Witness ==
    /\ res.op = "addStudent"
    /\ ~res.out.ok
    /\ res.in.id = 1
    /\ 1 \in DOMAIN stu
    /\ stu[1] # res.in.entity
    /\ maxId.student = 2
    /\ 2 \notin DOMAIN stu

\* C23: addEvent returns the id under which the new event is stored,
\* whether the store assigned it or the caller supplied it, so that
\* setEventErased with the returned id marks the event just added: the
\* returned id was free before the call and names the event added after
\* it.
C23_ReturnsStoredId ==
    [][(res'.op = "addEvent" /\ res'.out.ok) =>
          /\ res'.out.id \notin DOMAIN evt
          /\ res'.out.id \in DOMAIN evt'
          /\ evt'[res'.out.id] = [res'.in.e EXCEPT !.id = res'.out.id]]_vars

\* the ids of the events stored by the step
AddedIds == DOMAIN evt' \ DOMAIN evt

Matching(p) == {id \in DOMAIN stu : pred(p, stu[id].metadata, schema) = "true"}

\* the students of the store for which the predicate p throws
Throwing(p) == {id \in DOMAIN stu : pred(p, stu[id].metadata, schema) = "throws"}

\* the elements of a sequence
Range(s) == {s[i] : i \in DOMAIN s}

\* C25: getStudent(predicate) returns exactly the students for which the
\* predicate returns true, each once, and changes nothing;
\* deleteStudent(predicate) removes exactly those students and returns how
\* many it removed.  A student for which the predicate throws is not
\* returned and not deleted, and the students after it in the iteration
\* are still examined.
C25_ScanByPredicate ==
    [][/\ res'.op = "getStudent" =>
             /\ Range(res'.out.ids) = Matching(res'.in)
             /\ Len(res'.out.ids) = Cardinality(Matching(res'.in))
             /\ Range(res'.out.ids) \cap Throwing(res'.in) = {}
             /\ UNCHANGED stu
       /\ res'.op = "deleteStudent" =>
             /\ DOMAIN stu' = DOMAIN stu \ Matching(res'.in)
             /\ \A id \in DOMAIN stu' : stu'[id] = stu[id]
             /\ res'.out.count = Cardinality(Matching(res'.in))
             /\ Throwing(res'.in) \subseteq DOMAIN stu']_vars

\* a scan met a student whose age is no number before one whose age is 20
\* and returned the second
C25_Witness ==
    /\ res.op = "getStudent"
    /\ res.in = PredAgeAtLeast(20)
    /\ Len(res.order) = 2
    /\ pred(res.in, stu[res.order[1]].metadata, schema) = "throws"
    /\ res.out.ids = <<res.order[2]>>

\* what a store opened on the files would hold
StudentsOn(files) == LoadAll(files.stu, loadStudent)

GroupsOn(files) == LoadAll(files.grp, loadGroup)

EventsOn(files) == LoadAll(files.evt, loadEvent)

UsersOn(files) == LoadAll(files.users, loadUser)

\* the id counters are at least the largest id of each kind
CountersCover ==
    /\ \A id \in DOMAIN stu : id <= maxId.student
    /\ \A id \in DOMAIN grp : id <= maxId.group
    /\ \A id \in DOMAIN evt : id <= maxId.event
    /\ \A id \in DOMAIN users : id <= maxUserId

C27_RemoveMember ==
    [][/\ res'.op = "RemoveGroup" =>
             IF res'.out.ok
             THEN ~HasMember(stu'[1].groups, res'.in.id)
             ELSE ~HasMember(stu[1].groups, res'.in.id) /\ UNCHANGED <<stu, grp>>
       /\ res'.op = "RemoveStudent" =>
             IF res'.out.ok
             THEN ~HasMember(grp'[1].students, res'.in.id)
             ELSE ~HasMember(grp[1].students, res'.in.id) /\ UNCHANGED <<stu, grp>>]_vars

\* the step answered a create request for students or groups that has an
\* items array, the schema of the kind being defined
IsCreate ==
    /\ res'.op = "request"
    /\ res'.in.category \in {"student", "group"}
    /\ res'.in.action = "create"
    /\ res'.in.payload.hasItems
    /\ (IF res'.in.category = "student" THEN schema ELSE grp_schema) # <<>>

\* the entities of the kind the request is about, before and after it
EntitiesBefore == IF res'.in.category = "student" THEN stu ELSE grp

EntitiesAfter == IF res'.in.category = "student" THEN stu' ELSE grp'

\* the positions of the results reported with success true
Succeeded(results) == {i \in DOMAIN results : results[i].success}

\* C28: in a create request every item is processed independently: an
\* item that fails is reported with success false, leaves no new entity
\* behind and changes no entity that existed before the request; the
\* remaining items are still processed; the response status is ok; and
\* count is the number of items reported with success true.
C28_ItemsIndependent ==
    [][IsCreate =>
          /\ res'.response.status = "ok"
          /\ Len(res'.out.data.results) = Len(res'.in.payload.items)
          /\ res'.out.data.count = Cardinality(Succeeded(res'.out.data.results))
          /\ \A id \in DOMAIN EntitiesBefore :
                /\ id \in DOMAIN EntitiesAfter
                /\ EntitiesAfter[id] = EntitiesBefore[id]
          /\ DOMAIN EntitiesAfter \ DOMAIN EntitiesBefore =
                {res'.out.data.results[i].id : i \in Succeeded(res'.out.data.results)}]_vars

\* a student or group query request
IsQuery(r) ==
    /\ r.op = "request"
    /\ r.in.category \in {"student", "group"}
    /\ r.in.action = "query"

\* the limit a query payload asks for, 0 when it names none
LimitOf(p) == IF p.hasLimit THEN p.limit.i ELSE 0

\* the snapshot of the stored entity id of a kind
SnapshotOf(kind, id) ==
    materializeEntityData(EntitiesOf(kind, Db)[id].metadata, SchemaOf(kind, Db))

\* the snapshot of the stored entity id satisfies the predicate of the
\* payload p: any snapshot does when logic is absent or null
Satisfies(kind, id, p) ==
    \/ ~p.hasLogic
    \/ p.logic.kind = "null"
    \/ /\ evaluateLogicNode(SnapshotOf(kind, id), p.logic, SchemaOf(kind, Db)).ok
       /\ evaluateLogicNode(SnapshotOf(kind, id), p.logic, SchemaOf(kind, Db)).val

\* what C29 says of the items a query with the payload p returned
QueryReturned(kind, p, items) ==
    /\ \A k \in 1..Len(items) :
          /\ items[k].id \in DOMAIN EntitiesOf(kind, Db)
          /\ items[k].data = SnapshotOf(kind, items[k].id)
          /\ Satisfies(kind, items[k].id, p)
    /\ \A k, l \in 1..Len(items) : items[k].id = items[l].id => k = l
    /\ LimitOf(p) > 0 => Len(items) <= LimitOf(p)
    /\ LimitOf(p) = 0 =>
          \A id \in DOMAIN EntitiesOf(kind, Db) :
              Satisfies(kind, id, p) => \E k \in 1..Len(items) : items[k].id = id

\* C29: a student or group query request changes nothing in the store, and
\* when it is answered with items, every item is a stored entity with its
\* snapshot, listed once, whose snapshot satisfies the predicate of the
\* request (any entity when logic is absent or null); there are at most
\* limit items when limit is greater than 0, and every stored entity that
\* satisfies the predicate is among them when limit is absent or 0.
C29_QueryReturns ==
    [][IsQuery(res') =>
          /\ UNCHANGED <<stu, grp, evt, maxId, disk, schema, grp_schema, users,
                         usernameIndex>>
          /\ res'.out.ok =>
                QueryReturned(res'.in.category, res'.in.payload, res'.out.data.items)]_vars

\* a query with a predicate and limit 1 answered with one student although
\* two stored students satisfy the predicate
C29_Witness ==
    /\ IsQuery(res)
    /\ res.in.category = "student"
    /\ res.in.payload.hasLogic
    /\ res.in.payload.logic.kind = "leaf"
    /\ LimitOf(res.in.payload) = 1
    /\ res.out.ok
    /\ Len(res.out.data.items) = 1
    /\ Cardinality({id \in DOMAIN stu : Satisfies("student", id, res.in.payload)}) = 2

\* a user request with the action a was served
IsUserRequest(r, a) ==
    /\ r.op = "request"
    /\ r.in.category = "user"
    /\ r.in.action = a

\* the request carries a user name and a password, both strings
HasCredentials(q) ==
    /\ q.payload.username.some
    /\ IsString(q.payload.username.val)
    /\ q.payload.password.some
    /\ IsString(q.payload.password.val)

\* the id of the user the credentials of the request q are those of: the
\* user exists, is active and has that password
Authenticates(q, id) ==
    /\ id \in DOMAIN users
    /\ users[id].username = q.payload.username.val.s
    /\ users[id].active
    /\ users[id].passwordHash = hashPassword(q.payload.password.val.s)

\* the sessions of the two connections after the step
SessionAfter(c) == IF c = 1 THEN session' ELSE peer'

\* what C30 says of a request served on the connection c
SessionStep(c) ==
    /\ \A d \in Connections \ {c} : SessionAfter(d) = SessionOf(d)
    /\ (SessionAfter(c).some /\ SessionAfter(c) # SessionOf(c)) =>
          /\ IsUserRequest(res', "login")
          /\ HasCredentials(res'.in)
          /\ Authenticates(res'.in, SessionAfter(c).val)
    /\ (IsUserRequest(res', "login") /\ HasCredentials(res'.in)) =>
          IF \E id \in DOMAIN users : Authenticates(res'.in, id)
          THEN res'.response.status = "ok" /\ SessionAfter(c).some
          ELSE res'.response.code = 401 /\ SessionAfter(c) = SessionOf(c)
    /\ (IsUserRequest(res', "login") /\ res'.response.status = "error") =>
          SessionAfter(c) = SessionOf(c)
    /\ IsUserRequest(res', "logout") => ~SessionAfter(c).some
    /\ (res'.in.category = "user"
        /\ res'.in.action \in {"create", "delete", "update", "query"}
        /\ ~SessionOf(c).some) =>
          /\ res'.response.status = "error"
          /\ res'.response.code = 401
          /\ ~SessionAfter(c).some
          /\ UNCHANGED <<users, usernameIndex, maxUserId, disk>>

IsTextMessage(r) == r.in.type = "Message"

HasStringSeq(msg) == msg.body.parsed /\ msg.body.seq.has /\ msg.body.seq.string

\* the code the failure out is to be reported with
CodeOfFailure(out) ==
    IF out.err \in {"json::parse_error", "json::type_error"} THEN 400
    ELSE IF out.code = 0 THEN 500
    ELSE out.code

ResponseFits(msg, out, response) ==
    /\ HasStringSeq(msg) => response.seq = msg.body.seq.name
    /\ out.ok => response.status = "ok" /\ response.code = 200
    /\ ~out.ok => response.status = "error" /\ response.code = CodeOfFailure(out)

AnsweredOnce(r) ==
    /\ Len(r.sent) = 1
    /\ r.sent[1].to = r.conn
    /\ ResponseFits(r.in, r.out, r.sent[1].response)

C31_EveryMessageAnswered ==
    /\ [][res'.op = "returned" /\ IsTextMessage(res')
            => res.op = "received" /\ res'.conn = res.conn /\ res'.in = res.in
               /\ AnsweredOnce(res')]_vars
    /\ (res.op = "received" /\ IsTextMessage(res)) ~> (res.op = "returned")

\* a request with a string seq fails in its handler with a
\* std::runtime_error and is answered with code 500 and its seq
C31_Witness ==
    /\ res.op = "returned"
    /\ IsTextMessage(res)
    /\ res.conn = 2
    /\ ~res.out.ok
    /\ res.out.code = 0
    /\ res.sent[1].response.seq = "2"

\* ------------------------------------------------------------------------
\* C32: an id returned by allocateStudentId (allocateGroupId) is greater
\* than every id it returned before in the run and is not the id of a
\* student (group) in the store, so a creation with it finds the id free;
\* two allocations with nothing in between differ by exactly 1.
\* ------------------------------------------------------------------------

IsAllocation(r) == r.op = "allocate" /\ r.ok

Stored(kind, db) == IF kind = "student" THEN DOMAIN db.stu ELSE DOMAIN db.grp

\* id, returned on the store db after the ids before
FreshId(kind, id, before, db) ==
    /\ \A j \in before : id > j
    /\ id \notin Stored(kind, db)
    /\ kind = "student" => createStudent(db, id).ok
    /\ kind = "group" => createGroup(db, id).ok

InLockScope(c) == running[c].pc \in {"locked", "read", "allocated", "leaving"}

Shared ==
    <<schema, grp_schema, stu, grp, evt, maxId, disk, users, usernameIndex, maxUserId,
      currentUserId>>

\* the ids the running creations have allocated
HasId(c) == running[c].pc \in {"read", "allocated"}

WithoutRoot(c) ==
    /\ SessionOf(c).some
    /\ SessionOf(c).val \in DOMAIN users
    /\ ~hasPermission(users[SessionOf(c).val].permission, ROOT)

\* the request q carries the password of the user id as old_password
CarriesOldPassword(q, id) ==
    /\ q.action = "update"
    /\ q.payload.old_password.some
    /\ IsString(q.payload.old_password.val)
    /\ hashPassword(q.payload.old_password.val.s) = users[id].passwordHash

\* the user id is after the step as before, but for the password
SamePassword(id) == users'[id] = [users[id] EXCEPT !.passwordHash = users'[id].passwordHash]

C34_WithoutRoot ==
    [][res'.op = "request" /\ res'.in.category = "user" /\ WithoutRoot(res'.conn)
         => /\ DOMAIN users' = DOMAIN users
            /\ usernameIndex' = usernameIndex
            /\ \A id \in DOMAIN users :
                  \/ users'[id] = users[id]
                  \/ /\ id = SessionOf(res'.conn).val
                     /\ SamePassword(id)
                     /\ CarriesOldPassword(res'.in, id)]_vars

\* a session without ROOT has changed its own password
C34_Witness ==
    /\ IsUserRequest(res, "update")
    /\ res.conn = 2
    /\ peer.some
    /\ peer.val = 2
    /\ 2 \in DOMAIN users
    /\ ~hasPermission(users[2].permission, ROOT)
    /\ users[2].passwordHash = hashPassword(TRoot)
    /\ res.response.status = "ok"

\* ------------------------------------------------------------------------
\* C35: a user update request that fails is answered with the code of what
\* went wrong: 403 when a session without ROOT is to change a permission,
\* an active flag or the password of another user, 404 when the target
\* user does not exist, 401 when the old password given for the own
\* password is wrong, 400 for a malformed payload or for disabling oneself.
\* ------------------------------------------------------------------------

\* the connection c is logged in as an existing user
LoggedIn(c) == SessionOf(c).some /\ SessionOf(c).val \in DOMAIN users

GivesPassword(p) == p.new_password.some /\ IsString(p.new_password.val)

GivesOldPassword(p) == p.old_password.some /\ IsString(p.old_password.val)

GivesActive(p) == p.active.some /\ p.active.val.t = "bool"

\* the codes of what is wrong with the update payload p sent on c
WrongWith(p, c) ==
    IF ~p.id.some \/ p.id.val.t # "int" THEN {400}
    ELSE {403 : x \in {1} \cap
                    {IF WithoutRoot(c)
                        /\ (p.permission.some \/ GivesActive(p)
                            \/ (GivesPassword(p) /\ p.id.val.i # SessionOf(c).val))
                     THEN 1 ELSE 0}}
         \cup {404 : x \in {1} \cap {IF p.id.val.i \notin DOMAIN users THEN 1 ELSE 0}}
         \cup {401 : x \in {1} \cap
                    {IF GivesPassword(p) /\ p.id.val.i = SessionOf(c).val
                        /\ GivesOldPassword(p)
                        /\ hashPassword(p.old_password.val.s)
                             # users[SessionOf(c).val].passwordHash
                     THEN 1 ELSE 0}}
         \cup {400 : x \in {1} \cap
                    {IF \/ GivesPassword(p) /\ p.id.val.i = SessionOf(c).val
                           /\ ~GivesOldPassword(p)
                        \/ GivesActive(p) /\ ~p.active.val.b
                           /\ p.id.val.i = SessionOf(c).val
                        \/ p.permission.some
                           /\ ~parsePermissionFromJson(p.permission.val).ok
                     THEN 1 ELSE 0}}

C35_UpdateCodes ==
    [][IsUserRequest(res', "update") /\ LoggedIn(res'.conn)
         => IF WrongWith(res'.in.payload, res'.conn) = {}
            THEN res'.response.status = "ok"
            ELSE /\ res'.response.status = "error"
                 /\ res'.response.code \in WrongWith(res'.in.payload, res'.conn)]_vars

\* ------------------------------------------------------------------------
\* C36: while a user is disabled no request is carried out with the
\* privileges of that user: a login as that user is refused, and a session
\* logged in as that user before can not create, delete or update users.
\* ------------------------------------------------------------------------

\* the connection c is logged in as a user that is disabled
Disabled(c) == LoggedIn(c) /\ ~users[SessionOf(c).val].active

\* the request q asks to log in as a disabled user
LoginAsDisabled(q) ==
    /\ q.action = "login"
    /\ HasCredentials(q)
    /\ \E id \in DOMAIN users :
          users[id].username = q.payload.username.val.s /\ ~users[id].active

C36_DisabledRefused ==
    [][res'.op = "request" /\ res'.in.category = "user"
         => /\ LoginAsDisabled(res'.in)
               => /\ res'.response.status = "error"
                  /\ SessionAfter(res'.conn) = SessionOf(res'.conn)
            /\ (Disabled(res'.conn) /\ res'.in.action \in {"create", "delete", "update"})
               => /\ res'.response.status = "error"
                  /\ UNCHANGED <<users, usernameIndex, maxUserId>>]_vars

\* ------------------------------------------------------------------------
\* C37: an update request that is answered with an error, because a member
\* of its set object names no field of the schema or has a value of the
\* wrong type, or because no entity has the id, leaves every field of every
\* student and group as it was.
\* ------------------------------------------------------------------------

IsEntityUpdate(r) ==
    /\ r.op = "request"
    /\ r.in.category \in {"student", "group"}
    /\ r.in.action = "update"

C37_RejectedUpdate ==
    [][IsEntityUpdate(res') /\ res'.response.status = "error"
         => stu' = stu /\ grp' = grp]_vars

\* C38: after any sequence of UserManager operations the username index
\* and the user table agree: every user of the table is found under its
\* own username with its own id, every index entry names an existing user
\* that has that username, no two users share a username, and the id
\* counter is at least the largest user id.
C38_IndexAgrees ==
    /\ \A id \in DOMAIN users :
          /\ users[id].id = id
          /\ users[id].username \in DOMAIN usernameIndex
          /\ usernameIndex[users[id].username] = id
    /\ \A n \in DOMAIN usernameIndex :
          /\ usernameIndex[n] \in DOMAIN users
          /\ users[usernameIndex[n]].username = n
    /\ \A a, b \in DOMAIN users : users[a].username = users[b].username => a = b
    /\ \A id \in DOMAIN users : maxUserId >= id

\* C39: with the permission-checked operations called in any order,
\* whenever isLoggedIn is true the current user id refers to a user that is
\* in the user table and is active: the current user can neither delete
\* nor disable itself.
C39_CurrentUserValid ==
    /\ isLoggedIn(Um) =>
          /\ currentUserId \in DOMAIN users
          /\ users[currentUserId].active
    /\ [][(/\ isLoggedIn(Um)
           /\ res'.in.userId = currentUserId
           /\ \/ res'.op = "deleteUser"
              \/ res'.op = "setUserActive" /\ ~res'.in.active)
          => ~res'.out.ok /\ UNCHANGED <<users, usernameIndex, currentUserId>>]_vars

\* a logged-in ROOT user, with another active user in the table, was
\* refused to disable its own account
C39_Witness ==
    /\ res.op = "setUserActive"
    /\ isLoggedIn(Um)
    /\ res.in.userId = currentUserId
    /\ ~res.in.active
    /\ res.out.err = "DisableSelf"
    /\ \E id \in DOMAIN users : id # currentUserId /\ users[id].active

\* C40: starting from the default root account, after any sequence of
\* permission-checked user operations there is still at least one active
\* user with ROOT permission.
C40_RootRemains ==
    \E id \in DOMAIN users : users[id].active /\ users[id].permission = ROOT

====
